---- MODULE Spec2Model ----
(***************************************************************************)
(* BatteryModelMapper: the ontology-driven mapping engine.                 *)
(*                                                                         *)
(* Python objects live in a heap (mappings and sequences are mutable and   *)
(* may be shared between documents), text is a sequence of characters, a   *)
(* path is a sequence of string / integer components.                      *)
(***************************************************************************)
EXTENDS Integers, Sequences, FiniteSets, TLC

\* ------------------------------------------------------------------ bounds
\* largest number stored in a document leaf
MaxNum == 1
\* longest text the normalization is applied to on its own
MaxTextLen == 5
\* most ontology subjects in a graph
MaxSubjects == 2
\* deepest nesting followed when a document is compared by value
MaxDepth == 6

\* ------------------------------------------------------------ text basics
sHeader == <<"H","e","a","d","e","r">>
sValidation == <<"V","a","l","i","d","a","t","i","o","n">>
sParameterisation == <<"P","a","r","a","m","e","t","e","r","i","s","a","t","i","o","n">>
sOpenCircuitPotential == <<"o","p","e","n","C","i","r","c","u","i","t","P","o","t","e","n","t","i","a","l">>
sIonicConductivity == <<"i","o","n","i","c","C","o","n","d","u","c","t","i","v","i","t","y">>
sDiffusionCoefficient == <<"d","i","f","f","u","s","i","o","n","C","o","e","f","f","i","c","i","e","n","t">>
sFunctionFormat == <<"f","u","n","c","t","i","o","n","F","o","r","m","a","t">>
sArgumentList == <<"a","r","g","u","m","e","n","t","L","i","s","t">>
sExpression == <<"e","x","p","r","e","s","s","i","o","n">>
sStringExpression == <<"s","t","r","i","n","g"," ","e","x","p","r","e","s","s","i","o","n">>
sStoichiometry == <<"s","t","o","i","c","h","i","o","m","e","t","r","y">>
sConcentration == <<"c","o","n","c","e","n","t","r","a","t","i","o","n">>
sTemperature == <<"t","e","m","p","e","r","a","t","u","r","e">>
sFunctionName == <<"f","u","n","c","t","i","o","n","N","a","m","e">>
sFunctionname == <<"f","u","n","c","t","i","o","n","n","a","m","e">>
sBPX == <<"B","P","X">>
sTitle == <<"T","i","t","l","e">>
sDescription == <<"D","e","s","c","r","i","p","t","i","o","n">>
sModel == <<"M","o","d","e","l">>
sDFN == <<"D","F","N">>
sTitleText == <<"A","n"," ","a","u","t","o","c","o","n","v","e","r","t","e","d"," ","p","a","r","a","m","e","t","e","r"," ","s","e","t"," ","u","s","i","n","g"," ","B","a","t","t","e","r","y","M","o","d","e","l","M","a","p","p","e","r">>
sDescPrefix == <<"T","h","i","s"," ","d","a","t","a"," ","s","e","t"," ","w","a","s"," ","a","u","t","o","m","a","t","i","c","a","l","l","y"," ","g","e","n","e","r","a","t","e","d"," ","f","r","o","m"," ">>
sDescSuffix == <<"."," ","P","l","e","a","s","e"," ","c","h","e","c","k"," ","c","a","r","e","f","u","l","l","y",".">>
sNamedPrefix == <<"#"," ","N","a","m","e","d"," ","f","u","n","c","t","i","o","n",":"," ">>
sNamedSuffix == <<" ","(","r","e","q","u","i","r","e","s"," ","m","a","n","u","a","l"," ","c","o","n","v","e","r","s","i","o","n",")">>

Digits == <<"0","1","2","3","4","5","6","7","8","9">>
DigitSet == {Digits[i] : i \in 1..10}
LetterSet ==
    {"a","b","c","d","e","f","g","h","i","j","k","l","m","n","o","p","q","r",
     "s","t","u","v","w","x","y","z","A","B","C","D","E","F","G","H","I","J",
     "K","L","M","N","O","P","Q","R","S","T","U","V","W","X","Y","Z"}
\* \w of the regular expressions
WordChars == LetterSet \cup DigitSet \cup {"_"}
\* what str.strip() removes
SpaceChars == {" ", "\t", "\n"}

DigitValue(c) == CHOOSE i \in 0..9 : Digits[i + 1] = c

RECURSIVE Strip(_)
\* str.strip(): leading and trailing whitespace removed
Strip(s) ==
    IF s = <<>> THEN s
    ELSE IF Head(s) \in SpaceChars THEN Strip(Tail(s))
    ELSE IF s[Len(s)] \in SpaceChars THEN Strip(SubSeq(s, 1, Len(s) - 1))
    ELSE s

\* str.isdigit(): non-empty and every character a digit
IsDigit(s) == s # <<>> /\ \A i \in 1..Len(s) : s[i] \in DigitSet

\* a run of digits as int() and float() read it: single underscores may
\* separate the digits
DigitRun(s) ==
    /\ s # <<>>
    /\ s[1] \in DigitSet /\ s[Len(s)] \in DigitSet
    /\ \A i \in 1..Len(s) : s[i] \in DigitSet \cup {"_"}
    /\ \A i \in 1..(Len(s) - 1) : ~(s[i] = "_" /\ s[i + 1] = "_")

RECURSIVE DigitsToInt(_)
DigitsToInt(s) ==
    IF s = <<>> THEN 0
    ELSE IF s[Len(s)] = "_" THEN DigitsToInt(SubSeq(s, 1, Len(s) - 1))
    ELSE 10 * DigitsToInt(SubSeq(s, 1, Len(s) - 1)) + DigitValue(s[Len(s)])

\* int(text) succeeds on an optional sign followed by digits (after strip)
IntParses(s0) ==
    LET s == Strip(s0)
    IN  \/ DigitRun(s)
        \/ Len(s) >= 2 /\ s[1] \in {"+", "-"} /\ DigitRun(Tail(s))

IntOf(s0) ==
    LET s == Strip(s0)
    IN  IF DigitRun(s) THEN DigitsToInt(s)
        ELSE IF s[1] = "-" THEN 0 - DigitsToInt(Tail(s))
        ELSE DigitsToInt(Tail(s))

RECURSIVE NatToText(_)
\* str(n) for a natural number
NatToText(n) ==
    IF n < 10 THEN <<Digits[n + 1]>>
    ELSE NatToText(n \div 10) \o <<Digits[(n % 10) + 1]>>

IntToText(n) == IF n < 0 THEN <<"-">> \o NatToText(0 - n) ELSE NatToText(n)

\* -------------------------------------------------- values, keys, the heap
\* A Python value: a scalar, or a reference (a = address) to a mapping or a
\* sequence of the heap.
PyNone == [t |-> "none", n |-> 0, s |-> <<>>, a |-> 0]
PyNum(n) == [t |-> "num", n |-> n, s |-> <<>>, a |-> 0]
PyBool(b) == [t |-> "bool", n |-> IF b THEN 1 ELSE 0, s |-> <<>>, a |-> 0]
PyStr(s) == [t |-> "str", n |-> 0, s |-> s, a |-> 0]
PyRef(kind, a) == [t |-> kind, n |-> 0, s |-> <<>>, a |-> a]

IsRef(v) == v.t \in {"dict", "list"}

\* A path component / mapping key: a string or an integer
StrKey(s) == [t |-> "str", s |-> s, n |-> 0]
IntKey(n) == [t |-> "int", s |-> <<>>, n |-> n]

\* A heap object: a mapping (keys in insertion order, vals alongside) or a
\* sequence (vals only)
DictObj(keys, vals) == [kind |-> "dict", keys |-> keys, vals |-> vals]
ListObj(vals) == [kind |-> "list", keys |-> <<>>, vals |-> vals]

\* position of key k in mapping object o, 0 when absent
KeyIndex(o, k) ==
    IF \E i \in 1..Len(o.keys) : o.keys[i] = k
    THEN CHOOSE i \in 1..Len(o.keys) : o.keys[i] = k
    ELSE 0

\* o[k] = v on a mapping object
DictPut(o, k, v) ==
    LET i == KeyIndex(o, k)
    IN  IF i = 0 THEN DictObj(Append(o.keys, k), Append(o.vals, v))
        ELSE DictObj(o.keys, [o.vals EXCEPT ![i] = v])

\* o.pop(k, None) on a mapping object
DictPop(o, k) ==
    LET i == KeyIndex(o, k)
        keep == [j \in 1..(Len(o.keys) - 1) |-> IF j < i THEN j ELSE j + 1]
    IN  IF i = 0 THEN o
        ELSE DictObj([j \in DOMAIN keep |-> o.keys[keep[j]]],
                     [j \in DOMAIN keep |-> o.vals[keep[j]]])

\* a sequence index as Python resolves it (negative counts from the end);
\* 0 when out of range, else the 1-based position
ListPos(len, k) ==
    IF k >= 0 THEN (IF k < len THEN k + 1 ELSE 0)
    ELSE (IF len + k >= 0 THEN len + k + 1 ELSE 0)

RECURSIVE Deep(_, _, _)
\* The value of v with every reference followed: what == compares and what
\* json.dumps(sort_keys=True) writes.  A nesting deeper than fuel (a cycle)
\* is cut.
Deep(h, v, fuel) ==
    IF ~IsRef(v) THEN [t |-> v.t, n |-> v.n, s |-> v.s, kids |-> {}]
    ELSE IF fuel = 0 THEN [t |-> "cut", n |-> 0, s |-> <<>>, kids |-> {}]
    ELSE LET o == h[v.a]
         IN  [t |-> v.t, n |-> 0, s |-> <<>>,
              kids |-> {<<(IF v.t = "dict" THEN o.keys[i] ELSE IntKey(i - 1)),
                          Deep(h, o.vals[i], fuel - 1)>> : i \in 1..Len(o.vals)}]

\* ------------------------------------------------ documents as JSON files
\* A JSON document as loaded from a file: a tree, kids in file order.
JNull == [t |-> "none", n |-> 0, s |-> <<>>, kids |-> <<>>]
JNum(n) == [t |-> "num", n |-> n, s |-> <<>>, kids |-> <<>>]
JBool(b) == [t |-> "bool", n |-> IF b THEN 1 ELSE 0, s |-> <<>>, kids |-> <<>>]
JStr(s) == [t |-> "str", n |-> 0, s |-> s, kids |-> <<>>]
JDict(kids) == [t |-> "dict", n |-> 0, s |-> <<>>, kids |-> kids]
JList(items) ==
    [t |-> "list", n |-> 0, s |-> <<>>,
     kids |-> [i \in DOMAIN items |-> <<IntKey(i - 1), items[i]>>]]

RECURSIVE Load(_, _)
RECURSIVE LoadKids(_, _, _, _)
\* json.load: builds the objects of document j in heap h; [h, v]
Load(h, j) ==
    IF j.t \notin {"dict", "list"}
    THEN [h |-> h, v |-> [t |-> j.t, n |-> j.n, s |-> j.s, a |-> 0]]
    ELSE LET r == LoadKids(h, j.kids, 1, <<>>)
             keys == [i \in DOMAIN j.kids |-> j.kids[i][1]]
             o == IF j.t = "dict" THEN DictObj(keys, r.vals) ELSE ListObj(r.vals)
         IN  [h |-> Append(r.h, o), v |-> PyRef(j.t, Len(r.h) + 1)]

LoadKids(h, kids, i, vals) ==
    IF i > Len(kids) THEN [h |-> h, vals |-> vals]
    ELSE LET r == Load(h, kids[i][2])
         IN  LoadKids(r.h, kids, i + 1, Append(vals, r.v))

\* ------------------------------------------------------ path read / write
\* a path component as the walk uses it: a string is stripped
Stripped(k) == IF k.t = "str" THEN StrKey(Strip(k.s)) ELSE k

\* the component is an integer or a string of digits
IsIndexKey(k) == k.t = "int" \/ IsDigit(k.s)
IndexOf(k) == IF k.t = "int" THEN k.n ELSE DigitsToInt(k.s)

RECURSIVE get_value_from_path(_, _, _)
\* ParameterMapper.get_value_from_path: the value at keys under data, or
\* None on KeyError / IndexError / ValueError / TypeError or a scalar node
get_value_from_path(h, data, keys) ==
    IF keys = <<>> THEN data
    ELSE LET key == Stripped(Head(keys))
         IN  IF data.t = "dict"
             THEN LET o == h[data.a]
                      i == KeyIndex(o, key)
                  IN  IF i = 0 THEN PyNone
                      ELSE get_value_from_path(h, o.vals[i], Tail(keys))
             ELSE IF data.t = "list"
             THEN IF key.t = "str" /\ ~IntParses(key.s) THEN PyNone
                  ELSE LET o == h[data.a]
                           n == IF key.t = "int" THEN key.n ELSE IntOf(key.s)
                           i == ListPos(Len(o.vals), n)
                       IN  IF i = 0 THEN PyNone
                           ELSE get_value_from_path(h, o.vals[i], Tail(keys))
             ELSE PyNone

RECURSIVE GetRaised(_, _, _)
\* the exception the loop of get_value_from_path raises on keys under data,
\* "none" when it returns
GetRaised(h, data, keys) ==
    IF keys = <<>> THEN "none"
    ELSE LET key == Stripped(Head(keys))
         IN  IF data.t = "dict"
             THEN LET o == h[data.a]
                      i == KeyIndex(o, key)
                  IN  IF i = 0 THEN "KeyError"
                      ELSE GetRaised(h, o.vals[i], Tail(keys))
             ELSE IF data.t = "list"
             THEN IF key.t = "str" /\ ~IntParses(key.s) THEN "ValueError"
                  ELSE LET o == h[data.a]
                           n == IF key.t = "int" THEN key.n ELSE IntOf(key.s)
                           i == ListPos(Len(o.vals), n)
                       IN  IF i = 0 THEN "IndexError"
                           ELSE GetRaised(h, o.vals[i], Tail(keys))
             ELSE "none"

\* a handler for KeyError alone
GetCaught_key_error_only == {"KeyError"}

\* except (KeyError, IndexError, ValueError, TypeError) of the two readers
GetCaught == {"KeyError", "IndexError", "ValueError", "TypeError"}

RECURSIVE ExtendList(_, _, _)
\* while len(data) <= key: data.append({})
ExtendList(h, a, key) ==
    IF Len(h[a].vals) > key THEN h
    ELSE LET h1 == Append(h, DictObj(<<>>, <<>>))
             h2 == [h1 EXCEPT ![a] = ListObj(Append(h1[a].vals, PyRef("dict", Len(h1))))]
         IN  ExtendList(h2, a, key)

\* one step of the loop over keys[:-1] of set_value_from_path on node data,
\* key being the stripped component: [h, data, st], st = "ok", "caught" (an
\* exception the handler catches) or "raised" (AttributeError, which it does
\* not catch)
SetStepKey(h, data, key) ==
    LET caught == [h |-> h, data |-> data, st |-> "caught"]
        raised == [h |-> h, data |-> data, st |-> "raised"]
    IN  IF IsIndexKey(key)
        THEN LET n == IndexOf(key)
             IN  CASE data.t = "dict" ->
                        LET o == h[data.a]
                            i == KeyIndex(o, IntKey(n))
                        IN  IF Len(o.keys) <= n THEN raised
                            ELSE IF i = 0 THEN caught
                            ELSE [h |-> h, data |-> o.vals[i], st |-> "ok"]
                   [] data.t = "list" ->
                        LET h1 == ExtendList(h, data.a, n)
                            i == ListPos(Len(h1[data.a].vals), n)
                        IN  IF i = 0 THEN caught
                            ELSE [h |-> h1, data |-> h1[data.a].vals[i], st |-> "ok"]
                   [] data.t = "str" ->
                        LET i == ListPos(Len(data.s), n)
                        IN  IF Len(data.s) <= n THEN raised
                            ELSE IF i = 0 THEN caught
                            ELSE [h |-> h, data |-> PyStr(<<data.s[i]>>), st |-> "ok"]
                   [] OTHER -> caught
        ELSE IF data.t = "dict"
             THEN LET o == h[data.a]
                      i == KeyIndex(o, key)
                  IN  IF i # 0 THEN [h |-> h, data |-> o.vals[i], st |-> "ok"]
                      ELSE LET h1 == Append(h, DictObj(<<>>, <<>>))
                               v == PyRef("dict", Len(h1))
                           IN  [h |-> [h1 EXCEPT ![data.a] = DictPut(o, key, v)],
                                data |-> v, st |-> "ok"]
             ELSE caught

SetStep(h, data, k0) == SetStepKey(h, data, Stripped(k0))

\* data[final_key] = value, k1 being the stripped last component
SetFinalKey(h, data, k1, value) ==
    LET final_key == IF IsIndexKey(k1) THEN IntKey(IndexOf(k1)) ELSE k1
    IN  CASE data.t = "dict" ->
               [h |-> [h EXCEPT ![data.a] = DictPut(h[data.a], final_key, value)],
                st |-> "ok"]
          [] data.t = "list" ->
               LET o == h[data.a]
                   i == IF final_key.t = "int" THEN ListPos(Len(o.vals), final_key.n) ELSE 0
               IN  IF i = 0 THEN [h |-> h, st |-> "caught"]
                   ELSE [h |-> [h EXCEPT ![data.a] = ListObj([o.vals EXCEPT ![i] = value])],
                         st |-> "ok"]
          [] OTHER -> [h |-> h, st |-> "caught"]

SetFinal(h, data, k0, value) == SetFinalKey(h, data, Stripped(k0), value)

RECURSIVE SetWalk(_, _, _, _, _)
\* the walk goes on from the outcome r of a step
SetWalkOn(r, keys, i, value) ==
    IF r.st # "ok" THEN [h |-> r.h, st |-> r.st]
    ELSE SetWalk(r.h, r.data, keys, i + 1, value)

SetWalk(h, data, keys, i, value) ==
    IF i = Len(keys) THEN SetFinal(h, data, keys[i], value)
    ELSE SetWalkOn(SetStep(h, data, keys[i]), keys, i, value)

\* ParameterMapper.set_value_from_path: [h, st]; st = "ok" when the value was
\* stored, "caught" when the write was dropped, "raised" when the call raised
set_value_from_path(h, data, keys, value) ==
    IF keys = <<>> THEN [h |-> h, st |-> "caught"]
    ELSE SetWalk(h, data, keys, 1, value)

\* a match of the pattern anywhere, word boundary or not
WordMatchAt_no_boundary(t, i, pat) ==
    /\ i + Len(pat) - 1 <= Len(t)
    /\ SubSeq(t, i, i + Len(pat) - 1) = pat

\* --------------------------------------------------------- value conversion
\* the pattern \bpat\b matches at position i of t (pat starts and ends with a
\* word character)
WordMatchAt(t, i, pat) ==
    /\ i + Len(pat) - 1 <= Len(t)
    /\ SubSeq(t, i, i + Len(pat) - 1) = pat
    /\ (i = 1 \/ t[i - 1] \notin WordChars)
    /\ (i + Len(pat) > Len(t) \/ t[i + Len(pat)] \notin WordChars)

\* re.sub(r"\bpat\b", c, t) for a pattern that no proper prefix of which is
\* a suffix of it (matches cannot overlap): every match becomes the one
\* character c, every other character stays
ReSubWord(t, pat, c) ==
    LET starts == {i \in 1..Len(t) : WordMatchAt(t, i, pat)}
        inside(i) == \E j \in starts : j < i /\ i < j + Len(pat)
        kept == SelectSeq([i \in 1..Len(t) |-> i], LAMBDA i : ~inside(i))
    IN  [k \in 1..Len(kept) |-> IF kept[k] \in starts THEN c ELSE t[kept[k]]]

\* ParameterMapper.replace_variables on a text
replace_variables(t) ==
    ReSubWord(ReSubWord(t, <<"x","_","s">>, "x"), <<"c","_","e">>, "x")

RECURSIVE PyRepr(_, _, _)
RECURSIVE ReprItems(_, _, _, _, _)
\* repr(v): a text is quoted, a mapping and a sequence list their members
PyRepr(h, v, fuel) ==
    CASE v.t = "none" -> <<"N","o","n","e">>
      [] v.t = "bool" -> IF v.n = 1 THEN <<"T","r","u","e">> ELSE <<"F","a","l","s","e">>
      [] v.t = "num" -> IntToText(v.n)
      [] v.t = "float" -> IntToText(v.n \div 10) \o <<".">> \o IntToText(v.n % 10)
      [] v.t = "str" -> <<"'">> \o v.s \o <<"'">>
      [] v.t = "dict" ->
           IF fuel = 0 THEN <<"{",".",".",".","}">>
           ELSE <<"{">> \o ReprItems(h, h[v.a], 1, TRUE, fuel - 1) \o <<"}">>
      [] OTHER ->
           IF fuel = 0 THEN <<"[",".",".",".","]">>
           ELSE <<"[">> \o ReprItems(h, h[v.a], 1, FALSE, fuel - 1) \o <<"]">>

ReprItems(h, o, i, withKeys, fuel) ==
    IF i > Len(o.vals) THEN <<>>
    ELSE (IF i > 1 THEN <<",", " ">> ELSE <<>>)
         \o (IF withKeys
             THEN (IF o.keys[i].t = "str" THEN <<"'">> \o o.keys[i].s \o <<"'">>
                   ELSE IntToText(o.keys[i].n)) \o <<":", " ">>
             ELSE <<>>)
         \o PyRepr(h, o.vals[i], fuel)
         \o ReprItems(h, o, i + 1, withKeys, fuel)

\* str(v): a text is itself, anything else renders as repr
PyStrOf(h, v) == IF v.t = "str" THEN v.s ELSE PyRepr(h, v, MaxDepth)

\* func_name in output_path: the exact component is in the path
InPath(name, output_key) ==
    \E i \in 1..Len(output_key) : output_key[i] = StrKey(name)

\* the Function-Value {functionFormat, argumentList, expression}: [h, v]
FunctionValue(h, args, expr) ==
    LET h1 == Append(h, ListObj([i \in DOMAIN args |-> PyStr(args[i])]))
        fv == DictObj(<<StrKey(sFunctionFormat), StrKey(sArgumentList), StrKey(sExpression)>>,
                      <<PyStr(sStringExpression), PyRef("list", Len(h1)), PyStr(expr)>>)
        h2 == Append(h1, fv)
    IN  [h |-> h2, v |-> PyRef("dict", Len(h2))]

\* the table of function fields without diffusionCoefficient
_string_expr_to_battmo_func_two_fields(h, expr, output_key) ==
    IF InPath(sOpenCircuitPotential, output_key)
    THEN FunctionValue(h, <<sStoichiometry>>, expr)
    ELSE IF InPath(sIonicConductivity, output_key)
    THEN FunctionValue(h, <<sConcentration, sTemperature>>, expr)
    ELSE [h |-> h, v |-> PyStr(expr)]

\* ParameterMapper._string_expr_to_battmo_func: [h, v]
_string_expr_to_battmo_func(h, expr, output_key) ==
    IF InPath(sOpenCircuitPotential, output_key)
    THEN FunctionValue(h, <<sStoichiometry>>, expr)
    ELSE IF InPath(sIonicConductivity, output_key)
              \/ InPath(sDiffusionCoefficient, output_key)
    THEN FunctionValue(h, <<sConcentration, sTemperature>>, expr)
    ELSE [h |-> h, v |-> PyStr(expr)]

\* the conversion of a function object that has no placeholder for a named
\* function
_battmo_func_to_string_expr_unnamed(h, func_obj) ==
    LET o == h[func_obj.a]
        ie == KeyIndex(o, StrKey(sExpression))
    IN  IF ie # 0 THEN o.vals[ie]
        ELSE PyStr(PyStrOf(h, func_obj))

\* the conversion of a function object that never looks for "expression"
_battmo_func_to_string_expr_no_expression(h, func_obj) ==
    LET o == h[func_obj.a]
        iN == KeyIndex(o, StrKey(sFunctionName))
        il == KeyIndex(o, StrKey(sFunctionname))
        name == IF iN # 0 THEN o.vals[iN] ELSE o.vals[il]
    IN  IF iN # 0 \/ il # 0
        THEN PyStr(sNamedPrefix \o PyStrOf(h, name) \o sNamedSuffix)
        ELSE PyStr(PyStrOf(h, func_obj))

\* ParameterMapper._battmo_func_to_string_expr on a mapping value
_battmo_func_to_string_expr(h, func_obj) ==
    LET o == h[func_obj.a]
        ie == KeyIndex(o, StrKey(sExpression))
        iN == KeyIndex(o, StrKey(sFunctionName))
        il == KeyIndex(o, StrKey(sFunctionname))
        name == IF iN # 0 THEN o.vals[iN] ELSE o.vals[il]
    IN  IF ie # 0 THEN o.vals[ie]
        ELSE IF iN # 0 \/ il # 0
        THEN PyStr(sNamedPrefix \o PyStrOf(h, name) \o sNamedSuffix)
        ELSE PyStr(PyStrOf(h, func_obj))

\* only the MATLAB identifier counted as function-capable
FunctionCapable_m_only(output_type) == output_type = "battmo.m"

\* the destination formats that take Function-Values
FunctionCapable(output_type) == output_type \in {"battmo.m", "battmo.jl"}

\* the conversion that leaves function objects as they are for BPX
convert_value_functions_kept(h, value, output_key, output_type) ==
    IF value.t = "str" /\ FunctionCapable(output_type)
    THEN _string_expr_to_battmo_func(h, replace_variables(value.s), output_key)
    ELSE IF value.t = "str" /\ output_type = "bpx"
    THEN [h |-> h, v |-> PyStr(replace_variables(value.s))]
    ELSE [h |-> h, v |-> value]

\* the conversion to BattMo without the variable-name normalization
convert_value_unnormalized(h, value, output_key, output_type) ==
    IF value.t = "str" /\ FunctionCapable(output_type)
    THEN _string_expr_to_battmo_func(h, value.s, output_key)
    ELSE IF value.t = "dict" /\ output_type = "bpx"
    THEN [h |-> h, v |-> _battmo_func_to_string_expr(h, value)]
    ELSE IF value.t = "str" /\ output_type = "bpx"
    THEN [h |-> h, v |-> PyStr(replace_variables(value.s))]
    ELSE [h |-> h, v |-> value]

\* ParameterMapper.convert_value: [h, v]
convert_value(h, value, output_key, output_type) ==
    IF value.t = "str" /\ FunctionCapable(output_type)
    THEN _string_expr_to_battmo_func(h, replace_variables(value.s), output_key)
    ELSE IF value.t = "dict" /\ output_type = "bpx"
    THEN [h |-> h, v |-> _battmo_func_to_string_expr(h, value)]
    ELSE IF value.t = "str" /\ output_type = "bpx"
    THEN [h |-> h, v |-> PyStr(replace_variables(value.s))]
    ELSE [h |-> h, v |-> value]

\* ------------------------------------------------------ the ontology index
\* The annotation text of a triple is a sequence of tokens of the Python
\* literal syntax.
TokLP == [k |-> "(", s |-> <<>>, n |-> 0]
TokRP == [k |-> ")", s |-> <<>>, n |-> 0]
TokLB == [k |-> "[", s |-> <<>>, n |-> 0]
TokRB == [k |-> "]", s |-> <<>>, n |-> 0]
TokComma == [k |-> ",", s |-> <<>>, n |-> 0]
TokStr(s) == [k |-> "str", s |-> s, n |-> 0]
TokInt(n) == [k |-> "int", s |-> <<>>, n |-> n]
TokName(s) == [k |-> "name", s |-> s, n |-> 0]

IsScalarTok(tok) == tok.k \in {"str", "int", "name"}

\* the tokens between the brackets are e, e, ... with an optional last comma
ElemsWellFormed(toks) ==
    \A i \in 1..Len(toks) :
        IF i % 2 = 1 THEN IsScalarTok(toks[i]) ELSE toks[i].k = ","

ElemToks(toks) == [i \in 1..((Len(toks) + 1) \div 2) |-> toks[2 * i - 1]]

TokKey(tok) == IF tok.k = "int" THEN IntKey(tok.n) ELSE StrKey(tok.s)

\* a parsed literal: a sequence of components, a text or a number
LitSeq(elems) == [t |-> "seq", elems |-> elems, s |-> <<>>, n |-> 0]
LitStr(s) == [t |-> "str", elems |-> <<>>, s |-> s, n |-> 0]
LitNum(n) == [t |-> "num", elems |-> <<>>, s |-> <<>>, n |-> n]

LitOfTok(tok) == IF tok.k = "int" THEN LitNum(tok.n) ELSE LitStr(tok.s)

\* OntologyParser.parse_key: ast.literal_eval of the text; [] on SyntaxError
\* (malformed text) and on ValueError (a name that is no literal)
parse_key(toks) ==
    LET n == Len(toks)
        inner == SubSeq(toks, 2, n - 1)
        elems == ElemToks(inner)
        bracketed == n >= 2 /\ (\/ toks[1].k = "(" /\ toks[n].k = ")"
                                \/ toks[1].k = "[" /\ toks[n].k = "]")
    IN  IF n = 1 /\ IsScalarTok(toks[1])
        THEN (IF toks[1].k = "name" THEN LitSeq(<<>>) ELSE LitOfTok(toks[1]))
        ELSE IF ~bracketed \/ ~ElemsWellFormed(inner) THEN LitSeq(<<>>)
        ELSE IF \E i \in 1..Len(elems) : elems[i].k = "name" THEN LitSeq(<<>>)
        ELSE IF toks[1].k = "(" /\ Len(inner) = 1 THEN LitOfTok(inner[1])
        ELSE LitSeq([i \in DOMAIN elems |-> TokKey(elems[i])])

\* truth value of a parsed literal
Truthy(lit) ==
    CASE lit.t = "seq" -> lit.elems # <<>>
      [] lit.t = "str" -> lit.s # <<>>
      [] OTHER -> lit.n # 0

\* tuple(lit): a text gives its characters; a number has no tuple (TypeError)
TupleOf(lit) ==
    IF lit.t = "str" THEN [i \in DOMAIN lit.s |-> StrKey(<<lit.s[i]>>)] ELSE lit.elems

\* OntologyParser.key_map: the annotation predicate of a format identifier,
\* "" for an identifier the table does not hold
key_map(type) ==
    CASE type = "bpx" -> "bmli_0a5b99ee"
      [] type = "cidemod" -> "bmli_1b718841"
      [] type = "battmo.m" -> "bmli_e5e86474"
      [] type = "battmo.jl" -> "bmli_e5e86474"
      [] OTHER -> ""

RECURSIVE ScanSubject(_, _, _, _, _, _)
\* the inner loop over graph.predicate_objects(subject): the last value seen
\* for each of the two predicates ("none" when never seen)
ScanSubject(g, subject, i, input_key, output_key, acc) ==
    IF i > Len(g) THEN acc
    ELSE IF g[i].s # subject THEN ScanSubject(g, subject, i + 1, input_key, output_key, acc)
    ELSE IF g[i].p = input_key
    THEN ScanSubject(g, subject, i + 1, input_key, output_key,
                     [acc EXCEPT !.iv = parse_key(g[i].o), !.ihas = TRUE])
    ELSE IF g[i].p = output_key
    THEN ScanSubject(g, subject, i + 1, input_key, output_key,
                     [acc EXCEPT !.ov = parse_key(g[i].o), !.ohas = TRUE])
    ELSE ScanSubject(g, subject, i + 1, input_key, output_key, acc)

\* an index that keeps the first value stored under a key
IndexPut_first_kept(m, k, v) ==
    IF \E i \in 1..Len(m) : m[i][1] = k THEN m ELSE Append(m, <<k, v>>)

\* mappings[k] = v on the index (a dict: a known key keeps its position)
IndexPut(m, k, v) ==
    IF \E i \in 1..Len(m) : m[i][1] = k
    THEN [i \in 1..Len(m) |-> IF m[i][1] = k THEN <<k, v>> ELSE m[i]]
    ELSE Append(m, <<k, v>>)

RECURSIVE MappingsFrom(_, _, _, _, _)
\* a round that records the pair only when the input path is a sequence
\* literal
RecordMapping_input_sequences_only(r, g, i, input_key, output_key, m) ==
    IF r.ihas /\ r.ohas /\ Truthy(r.iv) /\ Truthy(r.ov) /\ r.iv.t # "str"
    THEN IF r.iv.t = "num" \/ r.ov.t = "num" THEN [m |-> m, st |-> "raised"]
         ELSE MappingsFrom(g, i + 1, input_key, output_key,
                           IndexPut(m, TupleOf(r.iv), TupleOf(r.ov)))
    ELSE MappingsFrom(g, i + 1, input_key, output_key, m)

\* the end of a round of the loop over graph.subjects(), r being what the
\* scan of the subject found
RecordMapping(r, g, i, input_key, output_key, m) ==
    IF r.ihas /\ r.ohas /\ Truthy(r.iv) /\ Truthy(r.ov)
    THEN IF r.iv.t = "num" \/ r.ov.t = "num" THEN [m |-> m, st |-> "raised"]
         ELSE MappingsFrom(g, i + 1, input_key, output_key,
                           IndexPut(m, TupleOf(r.iv), TupleOf(r.ov)))
    ELSE MappingsFrom(g, i + 1, input_key, output_key, m)

NothingSeen == [iv |-> LitSeq(<<>>), ihas |-> FALSE, ov |-> LitSeq(<<>>), ohas |-> FALSE]

\* the loop over graph.subjects(), one round per triple: [m, st]
MappingsFrom(g, i, input_key, output_key, m) ==
    IF i > Len(g) THEN [m |-> m, st |-> "ok"]
    ELSE RecordMapping(ScanSubject(g, g[i].s, 1, input_key, output_key, NothingSeen),
                       g, i, input_key, output_key, m)

\* get_mappings refusing only when both identifiers are unknown
get_mappings_both_unknown(g, input_type, output_type) ==
    IF key_map(input_type) = "" /\ key_map(output_type) = ""
    THEN [m |-> <<>>, st |-> "invalid"]
    ELSE MappingsFrom(g, 1, key_map(input_type), key_map(output_type), <<>>)

\* OntologyParser.get_mappings: [m, st]; st = "invalid" for the ValueError of
\* an unknown format identifier
get_mappings(g, input_type, output_type) ==
    IF key_map(input_type) = "" \/ key_map(output_type) = ""
    THEN [m |-> <<>>, st |-> "invalid"]
    ELSE MappingsFrom(g, 1, key_map(input_type), key_map(output_type), <<>>)

\* ---------------------------------------------------------- the translator
\* text t contains text k (Python's k in t on strings)
Contains(t, k) ==
    \E i \in 1..(Len(t) - Len(k) + 1) : SubSeq(t, i, i + Len(k) - 1) = k

KeyText(k) == IF k.t = "str" THEN k.s ELSE IntToText(k.n)

RECURSIVE get_all_paths(_, _, _, _)
\* ParameterMapper.get_all_paths: the dotted / bracketed path of every node
get_all_paths(h, data, path, fuel) ==
    IF ~IsRef(data) \/ fuel = 0 THEN {}
    ELSE LET o == h[data.a]
             cur(i) == IF data.t = "dict"
                       THEN (IF path # <<>> THEN path \o <<".">> \o KeyText(o.keys[i])
                             ELSE KeyText(o.keys[i]))
                       ELSE path \o <<"[">> \o IntToText(i - 1) \o <<"]">>
         IN  UNION {{cur(i)} \cup get_all_paths(h, o.vals[i], cur(i), fuel - 1)
                    : i \in 1..Len(o.vals)}

RECURSIVE DefaultPath(_, _)
DefaultPath(path, keys) ==
    IF keys = <<>> THEN path
    ELSE LET k == Head(keys)
         IN  DefaultPath(IF k.t = "str" THEN path \o <<".">> \o Strip(k.s)
                         ELSE path \o <<"[">> \o IntToText(k.n) \o <<"]">>,
                         Tail(keys))

\* ParameterMapper.remove_default_from_used
remove_default_from_used(defaults, keys) ==
    defaults \ {DefaultPath(sParameterisation, keys)}

\* ParameterMapper.remove_high_level_defaults
remove_high_level_defaults(defaults) ==
    {path \in defaults : ~Contains(path, sParameterisation) /\ ~Contains(path, sHeader)}

\* the source named in the header's description
InputUrl == <<"i","n",".","j","s","o","n">>

\* the header step keeping a Header that is there and never dropping Validation
set_bpx_header_if_missing(h, data) ==
    LET header == DictObj(<<StrKey(sBPX), StrKey(sTitle), StrKey(sDescription), StrKey(sModel)>>,
                          <<[t |-> "float", n |-> 1, s |-> <<>>, a |-> 0],
                            PyStr(sTitleText),
                            PyStr(sDescPrefix \o InputUrl \o sDescSuffix),
                            PyStr(sDFN)>>)
        h1 == Append(h, header)
    IN  IF KeyIndex(h[data.a], StrKey(sHeader)) # 0 THEN h
        ELSE [h1 EXCEPT ![data.a] = DictPut(h1[data.a], StrKey(sHeader),
                                            PyRef("dict", Len(h1)))]

\* ParameterMapper.set_bpx_header on the mapping at data: the heap after it
set_bpx_header(h, data) ==
    LET header == DictObj(<<StrKey(sBPX), StrKey(sTitle), StrKey(sDescription), StrKey(sModel)>>,
                          <<[t |-> "float", n |-> 1, s |-> <<>>, a |-> 0],
                            PyStr(sTitleText),
                            PyStr(sDescPrefix \o InputUrl \o sDescSuffix),
                            PyStr(sDFN)>>)
        h1 == Append(h, header)
        o1 == DictPut(h1[data.a], StrKey(sHeader), PyRef("dict", Len(h1)))
    IN  [h1 EXCEPT ![data.a] = DictPop(o1, StrKey(sValidation))]

\* template.copy(): a new mapping with the members of the template: [h, v]
CopyTemplate(h, template) ==
    LET h1 == Append(h, h[template.a]) IN [h |-> h1, v |-> PyRef("dict", Len(h1))]

\* the end of a round of the loop: w is what set_value_from_path gave
EntryWritten(w, e, defaults) ==
    IF w.st = "raised" THEN [h |-> w.h, st |-> "raised", defaults |-> defaults]
    ELSE [h |-> w.h, st |-> "ok", defaults |-> remove_default_from_used(defaults, e[2])]

\* c is what convert_value gave
EntryConverted(c, output_data, e, defaults) ==
    EntryWritten(set_value_from_path(c.h, output_data, e[2], c.v), e, defaults)

\* the loop body writing None where the input has no value
EntryValue_absent_written(h, output_data, e, value, output_type, defaults) ==
    EntryConverted(convert_value(h, value, e[2], output_type), output_data, e, defaults)

\* the loop body skipping every falsy value ("if value:")
EntryValue_if_truthy(h, output_data, e, value, output_type, defaults) ==
    IF \/ value.t = "none"
       \/ value.t \in {"num", "bool"} /\ value.n = 0
       \/ value.t = "str" /\ value.s = <<>>
       \/ IsRef(value) /\ h[value.a].vals = <<>>
    THEN [h |-> h, st |-> "ok", defaults |-> defaults]
    ELSE EntryConverted(convert_value(h, value, e[2], output_type), output_data, e, defaults)

\* value is what get_value_from_path gave
EntryValue(h, output_data, e, value, output_type, defaults) ==
    IF value.t = "none" THEN [h |-> h, st |-> "ok", defaults |-> defaults]
    ELSE EntryConverted(convert_value(h, value, e[2], output_type), output_data, e, defaults)

\* one round of the loop of map_parameters over entry e: [h, st, defaults]
MapEntry(h, output_data, e, input_data, output_type, defaults) ==
    EntryValue(h, output_data, e, get_value_from_path(h, input_data, e[1]),
               output_type, defaults)

RECURSIVE MapLoop(_, _, _, _, _, _, _)
MapLoopOn(r, output_data, m, i, input_data, output_type) ==
    IF r.st = "raised" THEN r
    ELSE MapLoop(r.h, output_data, m, i + 1, input_data, output_type, r.defaults)

MapLoop(h, output_data, m, i, input_data, output_type, defaults) ==
    IF i > Len(m) THEN [h |-> h, st |-> "ok", defaults |-> defaults]
    ELSE MapLoopOn(MapEntry(h, output_data, m[i], input_data, output_type, defaults),
                   output_data, m, i, input_data, output_type)

\* the end of map_parameters, r being what the loop gave
MapFinish(r, output_data, output_type) ==
    IF r.st = "raised"
    THEN [h |-> r.h, out |-> PyNone, st |-> "raised", defaults |-> r.defaults]
    ELSE [h |-> IF output_type = "bpx" THEN set_bpx_header(r.h, output_data) ELSE r.h,
          out |-> output_data, st |-> "ok",
          defaults |-> remove_high_level_defaults(r.defaults)]

\* map_parameters on the working copy c
MapOnCopy(c, m, input_data, output_type, defaults) ==
    MapFinish(MapLoop(c.h, c.v, m, 1, input_data, output_type, defaults), c.v, output_type)

\* ParameterMapper.map_parameters: [h, out, st, defaults]; st = "raised" when
\* an exception left the call (no document is returned then)
map_parameters(h, template, m, input_data, output_type, defaults) ==
    MapOnCopy(CopyTemplate(h, template), m, input_data, output_type, defaults)

\* ------------------------------------------------------------ the exporter
ToLower(c) ==
    CASE c = "I" -> "i" [] c = "N" -> "n" [] c = "F" -> "f" [] c = "T" -> "t"
      [] c = "Y" -> "y" [] c = "A" -> "a" [] c = "E" -> "e" [] OTHER -> c

\* digits with an optional fraction: 1, 1., 1.5, .5
MantissaParses(s) ==
    \/ DigitRun(s)
    \/ \E i \in 1..Len(s) :
         /\ s[i] = "."
         /\ (i > 1 \/ i < Len(s))
         /\ (i = 1 \/ DigitRun(SubSeq(s, 1, i - 1)))
         /\ (i = Len(s) \/ DigitRun(SubSeq(s, i + 1, Len(s))))

Unsigned(s) == IF s # <<>> /\ s[1] \in {"+", "-"} THEN Tail(s) ELSE s

\* float(text) succeeds
FloatParses(s0) ==
    LET s == Unsigned(Strip(s0))
        low == [i \in DOMAIN s |-> ToLower(s[i])]
    IN  \/ low \in {<<"i","n","f">>, <<"i","n","f","i","n","i","t","y">>, <<"n","a","n">>}
        \/ MantissaParses(s)
        \/ \E i \in 2..(Len(s) - 1) :
             /\ low[i] = "e"
             /\ MantissaParses(SubSeq(s, 1, i - 1))
             /\ DigitRun(Unsigned(SubSeq(s, i + 1, Len(s))))

\* only numbers count, texts never
_is_number_like_numbers_only(v) == v.t \in {"num", "float"}

\* jsonld_exporter._is_number_like
_is_number_like(v) ==
    \/ v.t \in {"num", "float"}
    \/ v.t = "str" /\ Strip(v.s) # <<>> /\ FloatParses(v.s)

\* the path a literal stands for when it is walked component by component:
\* a text is walked character by character
WalkOf(lit) == TupleOf(lit)

\* jsonld_exporter._get_value_from_path: as the translator's, and None for
\* a path that is a number (TypeError)
_get_value_from_path(h, data, lit) ==
    IF lit.t = "num" THEN PyNone ELSE get_value_from_path(h, data, WalkOf(lit))

\* the text of the first object of (subject, pred), <<>> when there is none
\* (jsonld_exporter._first_literal_str; a missing and an empty text are both
\* passed over by its callers)
_first_literal_str(g, subject, pred) ==
    IF \E i \in 1..Len(g) : g[i].s = subject /\ g[i].p = pred
    THEN LET i == CHOOSE i \in 1..Len(g) :
                      /\ g[i].s = subject /\ g[i].p = pred
                      /\ \A j \in 1..(i - 1) : ~(g[j].s = subject /\ g[j].p = pred)
         IN  g[i].o[1].s
    ELSE <<>>

\* jsonld_exporter._curie: the compact identifier of a subject
_curie(subject) == <<"b","m","l","i",":">> \o IntToText(subject)

\* jsonld_exporter._get_skos_prefLabel
_get_skos_prefLabel(g, subject) ==
    IF _first_literal_str(g, subject, "prefLabel") # <<>>
    THEN _first_literal_str(g, subject, "prefLabel")
    ELSE IF _first_literal_str(g, subject, "label") # <<>>
    THEN _first_literal_str(g, subject, "label")
    ELSE _curie(subject)

UnitLocalNames == {"hasMeasurementUnit", "hasUnit", "unit"}

\* jsonld_exporter._find_any_predicate_by_localname: the predicates the scan
\* of set(g.predicates()) may return first; {""} when there is none
UnitPredicates(g) ==
    IF \E i \in 1..Len(g) : g[i].p \in UnitLocalNames
    THEN {g[i].p : i \in {j \in 1..Len(g) : g[j].p \in UnitLocalNames}}
    ELSE {""}

\* jsonld_exporter._get_unit_for_subject, unit_pred being the predicate found
_get_unit_for_subject(g, subject, unit_pred) ==
    IF unit_pred = "" THEN <<>> ELSE _first_literal_str(g, subject, unit_pred)

\* the path text of the first triple of subject with the input predicate
FirstPath(g, subject, input_key) ==
    LET i == CHOOSE i \in 1..Len(g) :
                 /\ g[i].s = subject /\ g[i].p = input_key
                 /\ \A j \in 1..(i - 1) : ~(g[j].s = subject /\ g[j].p = input_key)
    IN  parse_key(g[i].o)

\* the value part of a property node
ValuePart(h, value) ==
    IF _is_number_like(value)
    THEN [part |-> "hasNumericalPart", type |-> "Real",
          text |-> IF value.t = "str" THEN Strip(value.s) ELSE <<>>,
          num |-> IF value.t = "str" /\ DigitRun(Strip(value.s)) THEN IntOf(value.s)
                  ELSE value.n,
          float |-> (value.t = "float")]
    ELSE [part |-> "hasStringPart", type |-> "String",
          text |-> IF value.t = "dict" /\ KeyIndex(h[value.a], StrKey(sFunctionname)) # 0
                   THEN PyStrOf(h, h[value.a].vals[KeyIndex(h[value.a], StrKey(sFunctionname))])
                   ELSE PyStrOf(h, value),
          num |-> 0, float |-> FALSE]

\* a node for every subject with a path, whether the value is there or not
PropertyNode_absent_kept(h, g, subject, input_key, input_data, unit_pred) ==
    LET path == FirstPath(g, subject, input_key)
        value == _get_value_from_path(h, input_data, path)
    IN  IF ~Truthy(path) THEN <<>>
        ELSE << [subject |-> subject,
                 label |-> _get_skos_prefLabel(g, subject),
                 value |-> ValuePart(h, value),
                 unit |-> _get_unit_for_subject(g, subject, unit_pred)] >>

\* a node for truthy values only ("if not value: continue")
PropertyNode_if_truthy(h, g, subject, input_key, input_data, unit_pred) ==
    LET path == FirstPath(g, subject, input_key)
        value == _get_value_from_path(h, input_data, path)
    IN  IF \/ ~Truthy(path) \/ value.t = "none"
           \/ value.t \in {"num", "bool"} /\ value.n = 0
           \/ value.t = "str" /\ value.s = <<>>
           \/ IsRef(value) /\ h[value.a].vals = <<>>
        THEN <<>>
        ELSE << [subject |-> subject,
                 label |-> _get_skos_prefLabel(g, subject),
                 value |-> ValuePart(h, value),
                 unit |-> _get_unit_for_subject(g, subject, unit_pred)] >>

\* the property node of a subject: [node] when it has one, <<>> otherwise
PropertyNode(h, g, subject, input_key, input_data, unit_pred) ==
    LET path == FirstPath(g, subject, input_key)
        value == _get_value_from_path(h, input_data, path)
    IN  IF ~Truthy(path) \/ value.t = "none" THEN <<>>
        ELSE << [subject |-> subject,
                 label |-> _get_skos_prefLabel(g, subject),
                 value |-> ValuePart(h, value),
                 unit |-> _get_unit_for_subject(g, subject, unit_pred)] >>

RECURSIVE PropertyNodes(_, _, _, _, _, _)
\* the loop of export_jsonld over the subjects that carry the input predicate
PropertyNodes(h, g, subjects, input_key, input_data, unit_pred) ==
    IF subjects = {} THEN <<>>
    ELSE LET subject == CHOOSE x \in subjects : \A y \in subjects : x <= y
         IN  PropertyNode(h, g, subject, input_key, input_data, unit_pred)
             \o PropertyNodes(h, g, subjects \ {subject}, input_key, input_data, unit_pred)

RECURSIVE collect_json_paths(_, _, _, _)
\* _find_missing_values.collect_json_paths: the path of every leaf
collect_json_paths(h, data, prefix, fuel) ==
    IF ~IsRef(data) THEN {prefix}
    ELSE IF fuel = 0 THEN {}
    ELSE LET o == h[data.a]
         IN  UNION {collect_json_paths(h, o.vals[i],
                        Append(prefix, IF data.t = "dict" THEN o.keys[i] ELSE IntKey(i - 1)),
                        fuel - 1) : i \in 1..Len(o.vals)}

\* jsonld_exporter._find_missing_values: [input_paths, mapped_paths, missing,
\* st]; st = "raised" when an annotation is a number (tuple() of it)
_find_missing_values(h, g, input_data, input_type) ==
    LET key == key_map(input_type)
        lits == {parse_key(g[i].o) : i \in {j \in 1..Len(g) : g[j].p = key}}
        mapped_paths == {TupleOf(l) : l \in lits}
        input_paths == collect_json_paths(h, input_data, <<>>, MaxDepth)
    IN  [input_paths |-> input_paths,
         mapped_paths |-> mapped_paths,
         missing |-> input_paths \ mapped_paths,
         st |-> IF \E l \in lits : l.t = "num" THEN "raised" ELSE "ok"]

NoAudit == [input_paths |-> {}, mapped_paths |-> {}, missing |-> {}, st |-> "ok"]

\* the end of export_jsonld: the output file is written, then the audit runs
ExportFinish(nodes, a) ==
    IF a.st = "raised"
    THEN [st |-> "raised", nodes |-> nodes, files |-> {"output"}, audit |-> NoAudit]
    ELSE [st |-> "ok", nodes |-> nodes, files |-> {"output", "missing_values.json"},
          audit |-> a]

\* jsonld_exporter.export_jsonld: [st, nodes, files, audit]
export_jsonld(h, g, input_type, input_data, unit_pred) ==
    IF key_map(input_type) = ""
    THEN [st |-> "invalid", nodes |-> <<>>, files |-> {}, audit |-> NoAudit]
    ELSE ExportFinish(
             PropertyNodes(h, g, {g[i].s : i \in {j \in 1..Len(g) : g[j].p = key_map(input_type)}},
                           key_map(input_type), input_data, unit_pred),
             _find_missing_values(h, g, input_data, input_type))

\* ------------------------------------------------------------ the inputs
kOcp == <<"o","c","p">>
kT == <<"t">>
kM == <<"m">>
kK == <<"k">>
kNE == <<"N","E">>
kTitleIn == <<"t","i","t","l","e">>

RECURSIVE CommaSep(_)
CommaSep(toks) ==
    IF Len(toks) <= 1 THEN toks
    ELSE <<Head(toks), TokComma>> \o CommaSep(Tail(toks))

\* the text ('a', 'b') of a path, ('a',) for a single component
TupleLit(toks) ==
    <<TokLP>> \o CommaSep(toks) \o (IF Len(toks) = 1 THEN <<TokComma>> ELSE <<>>) \o <<TokRP>>
\* the text ['a', 0]
ListLit(toks) == <<TokLB>> \o CommaSep(toks) \o <<TokRB>>

\* The ontology subjects a graph is made of: per subject the annotation
\* predicates it carries with their text, in the order the graph yields them.
Profiles ==
    << \* open-circuit potential: a formula
       << <<"bmli_0a5b99ee", TupleLit(<<TokStr(sParameterisation), TokStr(kOcp)>>)>>,
          <<"prefLabel", <<TokStr(<<"O","C","P">>)>> >>,
          <<"bmli_e5e86474", TupleLit(<<TokStr(kNE), TokStr(sOpenCircuitPotential)>>)>>,
          <<"hasMeasurementUnit", <<TokStr(<<"V">>)>> >>,
          <<"bmli_1b718841", TupleLit(<<TokStr(kOcp)>>)>> >>,
       \* a thickness: a number
       << <<"bmli_e5e86474", ListLit(<<TokStr(kNE), TokStr(kT)>>)>>,
          <<"label", <<TokStr(<<"t","h">>)>> >>,
          <<"hasUnit", <<TokStr(<<"m">>)>> >>,
          <<"bmli_0a5b99ee", ListLit(<<TokStr(sParameterisation), TokStr(kT)>>)>>,
          <<"bmli_1b718841", TupleLit(<<TokStr(kT)>>)>> >>,
       \* a whole block, whose BattMo path is a prefix of the two above
       << <<"bmli_0a5b99ee", TupleLit(<<TokStr(sParameterisation), TokStr(kM)>>)>>,
          <<"bmli_e5e86474", TupleLit(<<TokStr(kNE)>>)>> >>,
       \* a title, kept under the BPX header
       << <<"bmli_e5e86474", TupleLit(<<TokStr(kTitleIn)>>)>>,
          <<"bmli_0a5b99ee", TupleLit(<<TokStr(sHeader), TokStr(sTitle)>>)>> >>,
       \* a diffusion coefficient, the first member of a sequence in BattMo
       << <<"bmli_0a5b99ee", TupleLit(<<TokStr(sParameterisation), TokStr(kK)>>)>>,
          <<"bmli_e5e86474",
            ListLit(<<TokStr(kNE), TokStr(sDiffusionCoefficient), TokInt(0)>>)>> >>,
       \* an untrimmed component, an index inside a path, a digit string
       << <<"bmli_0a5b99ee", TupleLit(<<TokStr(sParameterisation), TokStr(<<" ","t"," ">>)>>)>>,
          <<"bmli_e5e86474", ListLit(<<TokStr(<<"E">>), TokInt(0), TokStr(<<"1">>)>>)>>,
          <<"bmli_1b718841", TupleLit(<<TokStr(kK), TokStr(<<"0">>)>>)>> >> >>

RECURSIVE GraphOf(_, _)
\* the triples of the subjects q[1], q[2], ... in iteration order
GraphOf(q, i) ==
    IF i > Len(q) THEN <<>>
    ELSE [j \in DOMAIN Profiles[q[i]] |->
             [s |-> i, p |-> Profiles[q[i]][j][1], o |-> Profiles[q[i]][j][2]]]
         \o GraphOf(q, i + 1)

\* the subjects of a graph: up to MaxSubjects different ones, which the graph
\* yields in the order of the list above or in the opposite order
SubjectChoices ==
    {q \in UNION {[1..n -> DOMAIN Profiles] : n \in 0..MaxSubjects} :
        \/ \A i, j \in DOMAIN q : i < j => q[i] < q[j]
        \/ \A i, j \in DOMAIN q : i < j => q[i] > q[j]}

Graphs == {GraphOf(q, 1) : q \in SubjectChoices}

Nums == {JNum(n) : n \in 0..MaxNum}

\* formula texts of a document
DocTexts == {<<"x","_","s">>, <<"c","_","e","+","x">>, <<"e","x","p">>, <<>>}

\* a BPX document; the diffusion coefficient k is a formula when the
\* open-circuit potential is, else a number
BpxDoc(ocp, t, m) ==
    JDict(<< <<StrKey(sParameterisation),
               JDict(<< <<StrKey(kOcp), ocp>>, <<StrKey(kT), t>>, <<StrKey(kM), m>>,
                        <<StrKey(kK), IF ocp.t = "none" THEN t ELSE ocp>> >>)>> >>)

BpxDocs ==
    {BpxDoc(JStr(x), JNum(0), JNull) : x \in DocTexts}
    \cup {BpxDoc(JNull, t, m) : t \in Nums,
              m \in {JDict(<< <<StrKey(kK), JList(<<JNum(1)>>)>> >>), JList(<<>>)}}

JFunctionValue(expr) ==
    JDict(<< <<StrKey(sFunctionFormat), JStr(sStringExpression)>>,
             <<StrKey(sArgumentList), JList(<<JStr(sStoichiometry)>>)>>,
             <<StrKey(sExpression), JStr(expr)>> >>)

BattMoDoc(ocp, t) ==
    JDict(<< <<StrKey(kNE),
               JDict(<< <<StrKey(sOpenCircuitPotential), ocp>>, <<StrKey(kT), t>> >>)>>,
             <<StrKey(kTitleIn), JStr(<<"x","_","s">>)>> >>)

BattMoDocs ==
    {BattMoDoc(f, JNum(0)) :
        f \in {JFunctionValue(<<"x","_","s">>), JStr(<<"c","_","e">>),
               JDict(<< <<StrKey(sFunctionName), JStr(<<"f">>)>> >>)}}
    \cup {BattMoDoc(JFunctionValue(<<"e","x","p">>), t) :
              t \in Nums \cup {JStr(<<"c","_","e">>)}}
    \* a document without a title
    \cup {JDict(<< <<StrKey(kNE), JDict(<< <<StrKey(kT), JNum(0)>> >>)>> >>)}

CidemodDocs ==
    {JDict(<< <<StrKey(kOcp), JStr(x)>>, <<StrKey(kT), t>> >>) :
        x \in {<<"x","_","s">>},
        t \in Nums \cup {JStr(<<"c","_","e">>), JStr(<<" ","1">>), JBool(TRUE),
                         JBool(FALSE), JDict(<<>>),
                         JDict(<< <<StrKey(sFunctionname), JStr(<<"f">>)>> >>)}}

FormatIds == {"bpx", "cidemod", "battmo.m", "battmo.jl"}
\* what a caller may pass as a format identifier: "jsonld" is no entry of the
\* format table
TypeArgs == FormatIds \cup {"jsonld"}

InputDocs(type) ==
    CASE type = "bpx" -> BpxDocs
      [] type \in {"battmo.m", "battmo.jl"} -> BattMoDocs
      [] OTHER -> CidemodDocs

Templates ==
    { JDict(<<>>),
      JDict(<< <<StrKey(kNE), JDict(<< <<StrKey(kT), JNum(0)>>,
                                      <<StrKey(sOpenCircuitPotential), JNull>> >>)>>,
               <<StrKey(sParameterisation), JDict(<< <<StrKey(kT), JNull>> >>)>>,
               <<StrKey(sHeader), JDict(<< <<StrKey(sBPX), JNum(1)>> >>)>>,
               <<StrKey(sValidation), JList(<<JNum(1)>>)>> >>),
      JDict(<< <<StrKey(kNE), JNull>>, <<StrKey(sParameterisation), JNum(1)>> >>) }

\* the texts the normalization is tried on
TextChars == {"x", "_", "s", "c", "e", "+"}
Texts == UNION {[1..n -> TextChars] : n \in 0..MaxTextLen}

\* ------------------------------------------------------ the state machine
VARIABLES
    heap,           \* the objects of the process
    graph,          \* OntologyParser.graph, in iteration order
    input_type,     \* the format identifiers of the run
    output_type,
    input_src,      \* the input and template documents as read from file
    template_src,
    input_data,     \* the loaded input document
    template,       \* ParameterMapper.template
    mappings,       \* the mapping index, in insertion order
    defaults_used,  \* ParameterMapper.defaults_used
    output_data,    \* what map_parameters returned
    back_data,      \* what the conversion back returned
    jsonld,         \* hasProperty of the exported document
    audit,          \* what _find_missing_values returned
    files,          \* the files written
    texts,          \* a text and its successive normalizations
    path_keys,      \* a path, the value written at it and the value read back
    path_value,
    path_got,
    second_src,     \* a second input document and what map_parameters returned
    second_data,    \* for it
    pc              \* where the run is

vars == <<heap, graph, input_type, output_type, input_src, template_src,
          input_data, template, mappings, defaults_used, output_data, back_data,
          jsonld, audit, files, texts, path_keys, path_value, path_got,
          second_src, second_data, pc>>

Init ==
    /\ graph \in Graphs
    /\ input_type \in TypeArgs
    /\ output_type \in TypeArgs
    /\ input_src \in InputDocs(input_type)
    /\ template_src \in Templates
    /\ LET i == Load(<<>>, input_src)
           t == Load(i.h, template_src)
       IN  heap = t.h /\ input_data = i.v /\ template = t.v
    /\ mappings = <<>>
    /\ defaults_used = {}
    /\ output_data = PyNone
    /\ back_data = PyNone
    /\ jsonld = <<>>
    /\ audit = NoAudit
    /\ files = {}
    /\ texts = <<>>
    /\ path_keys = <<>> /\ path_value = PyNone /\ path_got = PyNone
    /\ second_src = JNull /\ second_data = PyNone
    /\ pc = "start"

GotMappings(r) ==
    /\ mappings' = r.m
    /\ pc' = CASE r.st = "ok" -> "mapped"
               [] r.st = "invalid" -> "index_invalid"
               [] OTHER -> "index_raised"

\* main.run: ontology_parser.get_mappings(input_type, output_type)
GetMappings ==
    /\ pc = "start"
    /\ GotMappings(get_mappings(graph, input_type, output_type))
    /\ UNCHANGED <<second_src, second_data, path_keys, path_value, path_got, heap, graph, input_type, output_type, input_src, template_src,
                   input_data, template, defaults_used, output_data, back_data,
                   jsonld, audit, files, texts>>

\* the heap and the defaults of a mapper built as main.run builds it: the
\* template loses Validation, ParameterMapper.__init__ lists its paths
NewMapperOn(h, t) ==
    LET h1 == [h EXCEPT ![t.a] = DictPop(h[t.a], StrKey(sValidation))]
    IN  [h |-> h1, defaults |-> get_all_paths(h1, t, <<>>, MaxDepth)]

MapperBuilt(nm) ==
    /\ heap' = nm.h
    /\ defaults_used' = nm.defaults
    /\ pc' = "ready"

\* main.run: template_data.pop("Validation"), ParameterMapper(...)
NewMapper ==
    /\ pc = "mapped"
    /\ MapperBuilt(NewMapperOn(heap, template))
    /\ UNCHANGED <<second_src, second_data, path_keys, path_value, path_got, graph, input_type, output_type, input_src, template_src,
                   input_data, template, mappings, output_data, back_data,
                   jsonld, audit, files, texts>>

\* parameter_mapper.map_parameters(input_data), r being what it gives
Mapped(r) ==
    /\ heap' = r.h
    /\ output_data' = r.out
    /\ defaults_used' = r.defaults
    /\ pc' = IF r.st = "ok" THEN "done" ELSE "raised"

MapParameters ==
    /\ pc = "ready"
    /\ Mapped(map_parameters(heap, template, mappings, input_data, output_type,
                             defaults_used))
    /\ UNCHANGED <<second_src, second_data, path_keys, path_value, path_got, graph, input_type, output_type, input_src, template_src,
                   input_data, template, mappings, back_data, jsonld, audit, files,
                   texts>>

\* a conversion with index gm and mapper nm on template t: [h, out, st, m]
ConvertWith(gm, nm, t, data, to_type) ==
    IF gm.st # "ok" THEN [h |-> nm.h, out |-> PyNone, st |-> gm.st, m |-> gm.m]
    ELSE [m |-> gm.m] @@ map_parameters(nm.h, t, gm.m, data, to_type, nm.defaults)

ConvertOn(gm, t, data, to_type) ==
    ConvertWith(gm, NewMapperOn(t.h, t.v), t.v, data, to_type)

\* the conversion of document data (format from_type) to format to_type with
\* a template freshly loaded from file tj: [h, out, st, m, defaults]
Convert(h, g, tj, data, from_type, to_type) ==
    ConvertOn(get_mappings(g, from_type, to_type), Load(h, tj), data, to_type)

ConvertedBack(r) ==
    /\ heap' = r.h
    /\ back_data' = r.out
    /\ pc' = IF r.st = "ok" THEN "back" ELSE "back_raised"

\* the round trip of the tests: the converted document is converted back to
\* the input format, with the index built for the opposite direction
ConvertBack ==
    /\ pc = "done"
    /\ ConvertedBack(Convert(heap, graph, template_src, output_data, output_type,
                             input_type))
    /\ UNCHANGED <<second_src, second_data, path_keys, path_value, path_got, graph, input_type, output_type, input_src, template_src,
                   input_data, template, mappings, defaults_used, output_data,
                   jsonld, audit, files, texts>>

Exported(r) ==
    /\ jsonld' = r.nodes
    /\ audit' = r.audit
    /\ files' = r.files
    /\ pc' = CASE r.st = "ok" -> "exported"
               [] r.st = "invalid" -> "export_invalid"
               [] OTHER -> "export_raised"

\* main.run: export_jsonld(ontology_parser, input_type, input_data, ...)
ExportJsonld ==
    /\ pc = "start"
    /\ \E unit_pred \in UnitPredicates(graph) :
         Exported(export_jsonld(heap, graph, input_type, input_data, unit_pred))
    /\ UNCHANGED <<second_src, second_data, path_keys, path_value, path_got, heap, graph, input_type, output_type, input_src, template_src,
                   input_data, template, mappings, defaults_used, output_data,
                   back_data, texts>>

Next == GetMappings \/ NewMapper \/ MapParameters \/ ConvertBack \/ ExportJsonld

Spec == Init /\ [][Next]_vars

\* ---- the normalization on its own: a text is normalized, and again
InitNorm ==
    /\ texts \in {<<t>> : t \in Texts}
    /\ graph = <<>> /\ heap = <<>>
    /\ input_type = "bpx" /\ output_type = "battmo.m"
    /\ input_src = JNull /\ template_src = JNull
    /\ input_data = PyNone /\ template = PyNone
    /\ mappings = <<>> /\ defaults_used = {}
    /\ output_data = PyNone /\ back_data = PyNone
    /\ jsonld = <<>> /\ audit = NoAudit /\ files = {}
    /\ path_keys = <<>> /\ path_value = PyNone /\ path_got = PyNone
    /\ second_src = JNull /\ second_data = PyNone
    /\ pc = "norm"

\* value = self.replace_variables(value)
Normalize ==
    /\ pc = "norm"
    /\ Len(texts) < 3
    /\ texts' = Append(texts, replace_variables(texts[Len(texts)]))
    /\ UNCHANGED <<second_src, second_data, path_keys, path_value, path_got, heap, graph, input_type, output_type, input_src, template_src,
                   input_data, template, mappings, defaults_used, output_data,
                   back_data, jsonld, audit, files, pc>>

NextNorm == Normalize

SpecNorm == InitNorm /\ [][NextNorm]_vars

\* ---- the index of a graph whose annotations are not all path literals
\* what the object of an annotation may hold: a path, a text with a syntax
\* error, a name that is no literal, a number, a text in quotes, a text in
\* quotes between parentheses, an empty sequence
AnnotationTexts ==
    { ListLit(<<TokStr(kNE), TokStr(kT)>>),
      <<TokLP, TokStr(kT)>>,
      <<TokName(kT)>>,
      ListLit(<<TokName(kT)>>),
      <<TokInt(1)>>,
      <<TokInt(0)>>,
      <<TokStr(kNE)>>,
      <<TokLP, TokStr(kT), TokRP>>,
      ListLit(<<>>) }

\* a subject annotated for BPX and BattMo, one of the two with a path
AnnotatedProfiles ==
    { << <<"bmli_0a5b99ee", a>>,
         <<"bmli_e5e86474", ListLit(<<TokStr(kNE), TokStr(kK)>>)>> >> : a \in AnnotationTexts }
    \cup { << <<"bmli_0a5b99ee", TupleLit(<<TokStr(sParameterisation), TokStr(kK)>>)>>,
              <<"bmli_e5e86474", a>> >> : a \in AnnotationTexts }
    \* a subject with two values for one predicate
    \cup { << <<"bmli_0a5b99ee", TupleLit(<<TokStr(sParameterisation), TokStr(kK)>>)>>,
              <<"bmli_0a5b99ee", TupleLit(<<TokStr(sParameterisation), TokStr(kT)>>)>>,
              <<"bmli_e5e86474", ListLit(<<TokStr(kNE), TokStr(kK)>>)>> >>,
           << <<"bmli_e5e86474", ListLit(<<TokStr(kNE), TokStr(kT)>>)>>,
              <<"bmli_0a5b99ee", TupleLit(<<TokStr(sParameterisation), TokStr(kK)>>)>>,
              <<"bmli_e5e86474", ListLit(<<>>)>>,
              <<"bmli_e5e86474", ListLit(<<TokStr(kNE), TokStr(kOcp)>>)>> >> }

RECURSIVE TriplesOf(_, _)
\* the triples of the subjects with annotations q[1], q[2], ...
TriplesOf(q, i) ==
    IF i > Len(q) THEN <<>>
    ELSE [j \in DOMAIN q[i] |-> [s |-> i, p |-> q[i][j][1], o |-> q[i][j][2]]]
         \o TriplesOf(q, i + 1)

AnnotatedGraphs ==
    {TriplesOf(q, 1) : q \in UNION {[1..n -> AnnotatedProfiles] : n \in 1..MaxSubjects}}

InitIndex ==
    /\ graph \in AnnotatedGraphs
    /\ input_type \in FormatIds /\ output_type \in FormatIds
    /\ heap = <<>> /\ texts = <<>>
    /\ input_src = JNull /\ template_src = JNull
    /\ input_data = PyNone /\ template = PyNone
    /\ mappings = <<>> /\ defaults_used = {}
    /\ output_data = PyNone /\ back_data = PyNone
    /\ jsonld = <<>> /\ audit = NoAudit /\ files = {}
    /\ path_keys = <<>> /\ path_value = PyNone /\ path_got = PyNone
    /\ second_src = JNull /\ second_data = PyNone
    /\ pc = "start"

NextIndex == GetMappings

SpecIndex == InitIndex /\ [][NextIndex]_vars

\* ---- a value written at a path of a document and read back
MaxPathLen == 3

\* the documents written to
PathDocs ==
    { JDict(<<>>),
      JDict(<< <<StrKey(kK), JDict(<<>>)>> >>),
      JDict(<< <<StrKey(kK), JList(<<>>)>> >>),
      JDict(<< <<StrKey(kK), JList(<<JDict(<<>>), JNum(0)>>)>> >>),
      JDict(<< <<StrKey(kK), JNum(0)>> >>),
      JDict(<< <<StrKey(kK), JStr(kNE)>> >>) }

\* path components: a name, a name between blanks, a string of digits,
\* integers, one of them negative
PathComponents ==
    {StrKey(kK), StrKey(<<" ","t"," ">>), StrKey(<<"1">>), IntKey(0), IntKey(1),
     IntKey(0 - 1)}

PathChoices == UNION {[1..n -> PathComponents] : n \in 1..MaxPathLen}

PathValues == {PyNum(n) : n \in 0..MaxNum} \cup {PyStr(kT)}

InitPath ==
    /\ template_src \in PathDocs
    /\ path_keys \in PathChoices
    /\ path_value \in PathValues
    /\ LET t == Load(<<>>, template_src)
       IN  heap = t.h /\ output_data = t.v
    /\ path_got = PyNone
    /\ graph = <<>> /\ texts = <<>>
    /\ input_type = "bpx" /\ output_type = "battmo.m"
    /\ input_src = JNull /\ input_data = PyNone /\ template = PyNone
    /\ mappings = <<>> /\ defaults_used = {}
    /\ back_data = PyNone
    /\ jsonld = <<>> /\ audit = NoAudit /\ files = {}
    /\ second_src = JNull /\ second_data = PyNone
    /\ pc = "path"

ValueSet(r) ==
    /\ heap' = r.h
    /\ pc' = CASE r.st = "ok" -> "set"
               [] r.st = "caught" -> "set_dropped"
               [] OTHER -> "set_raised"

\* self.set_value_from_path(output_data, output_key, value)
SetValue ==
    /\ pc = "path"
    /\ ValueSet(set_value_from_path(heap, output_data, path_keys, path_value))
    /\ UNCHANGED <<second_src, second_data, path_keys, path_value, path_got, graph, input_type, output_type,
                   input_src, template_src, input_data, template, mappings,
                   defaults_used, output_data, back_data, jsonld, audit, files, texts>>

\* self.get_value_from_path(output_data, output_key), after a write that
\* was done
GetValue ==
    /\ pc = "set"
    /\ path_got' = get_value_from_path(heap, output_data, path_keys)
    /\ pc' = "got"
    /\ UNCHANGED <<second_src, second_data, path_keys, path_value, heap, graph, input_type, output_type,
                   input_src, template_src, input_data, template, mappings,
                   defaults_used, output_data, back_data, jsonld, audit, files, texts>>

\* self.get_value_from_path(data, keys) on a document as loaded
GetFromDocument ==
    /\ pc = "path"
    /\ path_got' = get_value_from_path(heap, output_data, path_keys)
    /\ pc' = IF GetRaised(heap, output_data, path_keys) \in GetCaught \cup {"none"}
             THEN "read" ELSE "read_raised"
    /\ UNCHANGED <<second_src, second_data, path_keys, path_value, heap, graph, input_type, output_type,
                   input_src, template_src, input_data, template, mappings,
                   defaults_used, output_data, back_data, jsonld, audit, files, texts>>

NextPath == SetValue \/ GetValue \/ GetFromDocument

SpecPath == InitPath /\ [][NextPath]_vars

\* ---- one mapper called twice: a BPX document is converted to BattMo, then
\* another one by the same ParameterMapper
InitTwice ==
    /\ graph \in Graphs
    /\ input_type = "bpx"
    /\ output_type = "battmo.m"
    /\ input_src \in BpxDocs
    /\ second_src \in BpxDocs \ {input_src}
    /\ template_src \in Templates
    /\ LET i == Load(<<>>, input_src)
           t == Load(i.h, template_src)
       IN  heap = t.h /\ input_data = i.v /\ template = t.v
    /\ mappings = <<>>
    /\ defaults_used = {}
    /\ output_data = PyNone
    /\ back_data = PyNone
    /\ second_data = PyNone
    /\ jsonld = <<>>
    /\ audit = NoAudit
    /\ files = {}
    /\ texts = <<>>
    /\ path_keys = <<>> /\ path_value = PyNone /\ path_got = PyNone
    /\ pc = "start"

MappedAgain(r) ==
    /\ heap' = r.h
    /\ second_data' = r.out
    /\ defaults_used' = r.defaults
    /\ pc' = IF r.st = "ok" THEN "done_again" ELSE "raised_again"

\* the second document d is loaded, then parameter_mapper.map_parameters(d)
MapAgainOn(d) ==
    MappedAgain(map_parameters(d.h, template, mappings, d.v, output_type, defaults_used))

MapAgain ==
    /\ pc = "done"
    /\ MapAgainOn(Load(heap, second_src))
    /\ UNCHANGED <<second_src, path_keys, path_value, path_got, graph, input_type,
                   output_type, input_src, template_src, input_data, template,
                   mappings, output_data, back_data, jsonld, audit, files, texts>>

NextTwice == GetMappings \/ NewMapper \/ MapParameters \/ MapAgain

SpecTwice == InitTwice /\ [][NextTwice]_vars

\* ------------------------------------------------------------- the claims
\* the input document and the template as they are when map_parameters is
\* called: freshly loaded, the template without its Validation
InputAtCall == Load(<<>>, input_src)

WithoutValidation(t) == [h |-> NewMapperOn(t.h, t.v).h, v |-> t.v]
TemplateAtCall == WithoutValidation(Load(<<>>, template_src))

DeepOf(r) == Deep(r.h, r.v, MaxDepth)

\* C1 (as claimed): after map_parameters the template the caller passed,
\* nested mappings and sequences included, equals its value before the call.
C1_TemplateNeverModified ==
    pc = "done" => Deep(heap, template, MaxDepth) = DeepOf(TemplateAtCall)

\* C3 (as claimed): after map_parameters the input document equals the input
\* document before the call.
C3_InputNeverModified ==
    pc = "done" => Deep(heap, input_data, MaxDepth) = DeepOf(InputAtCall)

\* ---- C2: the mapped values in the returned document
IsPrefix(a, b) == Len(a) <= Len(b) /\ SubSeq(b, 1, Len(a)) = a
TrimmedPath(keys) == [i \in DOMAIN keys |-> Stripped(keys[i])]

\* output paths of distinct entries are neither equal nor prefixes of one
\* another: as written, and with the components trimmed as the walk trims them
Unrelated(m) ==
    \A i, j \in DOMAIN m : i # j => ~IsPrefix(m[i][2], m[j][2])
UnrelatedTrimmed(m) ==
    \A i, j \in DOMAIN m :
        i # j => ~IsPrefix(TrimmedPath(m[i][2]), TrimmedPath(m[j][2]))

RECURSIVE ThroughMappings(_, _, _)
\* every node of document data that the walk along keys meets before the
\* last component is a mapping
ThroughMappings(h, data, keys) ==
    /\ data.t = "dict"
    /\ \/ Len(keys) <= 1
       \/ KeyIndex(h[data.a], Stripped(Head(keys))) = 0
       \/ ThroughMappings(h, h[data.a].vals[KeyIndex(h[data.a], Stripped(Head(keys)))],
                          Tail(keys))

\* no component is an integer or a string of digits
NamePath(keys) == \A i \in DOMAIN keys : ~IsIndexKey(Stripped(keys[i]))

\* the path does not start at a key the BPX header step replaces or drops
OutsideHeader(type, keys) ==
    type = "bpx" => Stripped(keys[1]) \notin {StrKey(sHeader), StrKey(sValidation)}

\* the value entry e reads from the input document
ReadBy(e) == get_value_from_path(InputAtCall.h, InputAtCall.v, e[1])
\* the document doc (in the heap of the state) holds at path keys the value
\* that value converts to for path keys and format type
HoldsConverted(doc, keys, value, type) ==
    Deep(heap, get_value_from_path(heap, doc, keys), MaxDepth)
        = DeepOf(convert_value(InputAtCall.h, value, keys, type))

\* C2 (as claimed): every entry whose input path resolves to a present value
\* has its converted value at its output path in the returned document,
\* provided output paths are neither equal nor prefixes of one another and
\* the template's nodes along the output path are mappings.
C2_MappedValueWritten ==
    pc = "done" /\ Unrelated(mappings) =>
        \A i \in DOMAIN mappings :
            /\ ReadBy(mappings[i]).t # "none"
            /\ ThroughMappings(TemplateAtCall.h, TemplateAtCall.v, mappings[i][2])
            => HoldsConverted(output_data, mappings[i][2], ReadBy(mappings[i]),
                              output_type)

\* the output paths C2 as amended covers, for output format type
CoveredPath(keys, type) ==
    /\ ThroughMappings(TemplateAtCall.h, TemplateAtCall.v, keys)
    /\ NamePath(keys)
    /\ OutsideHeader(type, keys)
C2_Covered(m, i, type) == CoveredPath(m[i][2], type)

\* C2 (amended): the same, for output paths made of names only (no integer,
\* no digit string), compared after trimming, and, when the output format is
\* BPX, not starting at Header or Validation.
C2_MappedNameWritten ==
    pc = "done" /\ UnrelatedTrimmed(mappings) =>
        \A i \in DOMAIN mappings :
            ReadBy(mappings[i]).t # "none" /\ C2_Covered(mappings, i, output_type)
            => HoldsConverted(output_data, mappings[i][2], ReadBy(mappings[i]),
                              output_type)

\* a number 0 of the input replaced a different template default
C2_Witness ==
    /\ pc = "done" /\ UnrelatedTrimmed(mappings)
    /\ \E i \in DOMAIN mappings :
          /\ ReadBy(mappings[i]) = PyNum(0)
          /\ C2_Covered(mappings, i, output_type)
          /\ get_value_from_path(TemplateAtCall.h, TemplateAtCall.v, mappings[i][2])
                 # PyNum(0)

\* ---- C4: unknown format identifiers
\* C4: with a format identifier outside the format table, get_mappings gives
\* no mapping index (the run stops there), and with an unknown input format
\* export_jsonld builds no property node and writes no file.
C4_UnknownFormatFailsFirst ==
    /\ input_type \notin FormatIds \/ output_type \notin FormatIds
           => pc \notin {"mapped", "index_raised", "ready", "done", "raised", "back",
                         "back_raised"}
              /\ mappings = <<>>
    /\ input_type \notin FormatIds
           => pc \notin {"exported", "export_raised"} /\ jsonld = <<>> /\ files = {}

\* get_mappings refused a known input format with an unknown output format
C4_Witness ==
    pc = "index_invalid" /\ input_type \in FormatIds /\ output_type \notin FormatIds

\* ---- C5: the two BattMo identifiers
BattMoIds == {"battmo.m", "battmo.jl"}
TwinOf(type) == IF type = "battmo.m" THEN "battmo.jl" ELSE "battmo.m"

\* the conversion of the same input, template and graph to format type
RunTo(type) ==
    Convert(InputAtCall.h, graph, template_src, InputAtCall.v, input_type, type)

\* run r built the index of the state and ended as the state's run did,
\* with an equal output document
SameAsRun(r) ==
    /\ r.m = mappings
    /\ pc = "done" => r.st = "ok" /\ Deep(r.h, r.out, MaxDepth) = Deep(heap, output_data, MaxDepth)
    /\ pc = "raised" => r.st = "raised"

\* C5: a conversion to battmo.m and the conversion of the same input to
\* battmo.jl build equal mapping indices and give equal output documents.
C5_BattMoIdentifiersAgree ==
    pc \in {"done", "raised"} /\ output_type \in BattMoIds
        => SameAsRun(RunTo(TwinOf(output_type)))

\* a conversion to battmo.jl that wrote a Function-Value
C5_Witness ==
    /\ pc = "done" /\ output_type = "battmo.jl"
    /\ get_value_from_path(heap, output_data,
           <<StrKey(kNE), StrKey(sOpenCircuitPotential), StrKey(sFunctionFormat)>>)
         = PyStr(sStringExpression)

\* ---- C6: text values written for a BattMo destination
TextValue(x) == [t |-> "str", n |-> 0, s |-> x, kids |-> {}]
SequenceValue(xs) ==
    [t |-> "list", n |-> 0, s |-> <<>>,
     kids |-> {<<IntKey(i - 1), TextValue(xs[i])>> : i \in DOMAIN xs}]
\* a Function-Value with arguments args and expression expr
FunctionValueOf(args, expr) ==
    [t |-> "dict", n |-> 0, s |-> <<>>,
     kids |-> { <<StrKey(<<"f","u","n","c","t","i","o","n","F","o","r","m","a","t">>),
                  TextValue(<<"s","t","r","i","n","g"," ","e","x","p","r","e","s","s","i","o","n">>)>>,
                <<StrKey(<<"a","r","g","u","m","e","n","t","L","i","s","t">>),
                  SequenceValue(args)>>,
                <<StrKey(<<"e","x","p","r","e","s","s","i","o","n">>), TextValue(expr)>> }]

HasField(name, keys) == \E i \in DOMAIN keys : keys[i] = StrKey(name)

\* what C6 says is written for text x at output path keys
WrittenForText(keys, x) ==
    IF HasField(sOpenCircuitPotential, keys)
    THEN FunctionValueOf(<<sStoichiometry>>, x)
    ELSE IF HasField(sIonicConductivity, keys) \/ HasField(sDiffusionCoefficient, keys)
    THEN FunctionValueOf(<<sConcentration, sTemperature>>, x)
    ELSE TextValue(x)

\* C6: for a BattMo destination a text value is converted to a Function-Value
\* (format "string expression", the normalized text as expression,
\* ["stoichiometry"] for openCircuitPotential, ["concentration","temperature"]
\* for ionicConductivity and diffusionCoefficient) when its output path has
\* one of the three components, else to the normalized text; and that is the
\* value in the returned document wherever C2 says the value is written.
C6_TextToFunctionValue ==
    pc = "done" /\ output_type \in BattMoIds =>
        \A i \in DOMAIN mappings :
            ReadBy(mappings[i]).t = "str" =>
                /\ DeepOf(convert_value(InputAtCall.h, ReadBy(mappings[i]),
                                        mappings[i][2], output_type))
                     = WrittenForText(mappings[i][2],
                                      replace_variables(ReadBy(mappings[i]).s))
                /\ UnrelatedTrimmed(mappings) /\ C2_Covered(mappings, i, output_type)
                     => Deep(heap, get_value_from_path(heap, output_data, mappings[i][2]),
                             MaxDepth)
                          = WrittenForText(mappings[i][2],
                                           replace_variables(ReadBy(mappings[i]).s))

\* the formula x_s went to a diffusion coefficient and to an open-circuit
\* potential
C6_Witness ==
    /\ pc = "done" /\ output_type \in BattMoIds
    /\ \E i, j \in DOMAIN mappings :
          /\ ReadBy(mappings[i]) = PyStr(<<"x","_","s">>)
          /\ HasField(sDiffusionCoefficient, mappings[i][2])
          /\ Deep(heap, get_value_from_path(heap, output_data, mappings[i][2]), MaxDepth)
                = FunctionValueOf(<<sConcentration, sTemperature>>, <<"x">>)
          /\ ReadBy(mappings[j]) = PyStr(<<"x","_","s">>)
          /\ HasField(sOpenCircuitPotential, mappings[j][2])

\* ---- C7, C8: a Function-Value converted back to BPX
\* the returned document holds at e's output path the Function-Value that the
\* text e reads was converted to
HoldsFunctionOf(e) ==
    /\ ReadBy(e).t = "str"
    /\ get_value_from_path(heap, output_data, e[2]).t = "dict"
    /\ HoldsConverted(output_data, e[2], ReadBy(e), output_type)

\* that Function-Value converted for BPX, and the expression stored in it
BackToBpx(e) ==
    convert_value(heap, get_value_from_path(heap, output_data, e[2]), e[1], "bpx").v
StoredExpression(e) ==
    get_value_from_path(heap, output_data, Append(e[2], StrKey(sExpression)))

OneArgument(e) ==
    Deep(heap, get_value_from_path(heap, output_data, Append(e[2], StrKey(sArgumentList))),
         MaxDepth) = SequenceValue(<<sStoichiometry>>)

\* C8 (as claimed): a BPX text open-circuit potential becomes a Function-Value
\* with argumentList ["stoichiometry"], and converting it back to BPX gives
\* the original text.
C8_BackIsOriginalText ==
    pc = "done" /\ input_type = "bpx" /\ output_type \in BattMoIds =>
        \A i \in DOMAIN mappings :
            HoldsFunctionOf(mappings[i]) /\ HasField(sOpenCircuitPotential, mappings[i][2])
                => OneArgument(mappings[i]) /\ BackToBpx(mappings[i]) = ReadBy(mappings[i])

\* the text has neither of the two variable names in it
NoVariableName(x) == ~Contains(x, <<"x","_","s">>) /\ ~Contains(x, <<"c","_","e">>)

\* C8 (amended): ... and converting it back to BPX gives the original text
\* with whole-word x_s and c_e rewritten to x: the original text itself when
\* it has neither name in it.
C8_BackIsNormalizedText ==
    pc = "done" /\ input_type = "bpx" /\ output_type \in BattMoIds =>
        \A i \in DOMAIN mappings :
            HoldsFunctionOf(mappings[i]) /\ HasField(sOpenCircuitPotential, mappings[i][2])
                => /\ OneArgument(mappings[i])
                   /\ BackToBpx(mappings[i]) = PyStr(replace_variables(ReadBy(mappings[i]).s))
                   /\ NoVariableName(ReadBy(mappings[i]).s)
                        => BackToBpx(mappings[i]) = ReadBy(mappings[i])

\* the open-circuit potential c_e+x came back as x+x
C8_Witness ==
    /\ pc = "done" /\ input_type = "bpx" /\ output_type \in BattMoIds
    /\ \E i \in DOMAIN mappings :
          /\ HoldsFunctionOf(mappings[i]) /\ HasField(sOpenCircuitPotential, mappings[i][2])
          /\ ReadBy(mappings[i]) = PyStr(<<"c","_","e","+","x">>)
          /\ BackToBpx(mappings[i]) = PyStr(<<"x","+","x">>)

\* ---- C9: the round trip A -> B -> A
\* the index of the conversion back, built on its own
BackIndex == get_mappings(graph, output_type, input_type).m

\* entry e is mapped in both directions, and both conversions write it (the
\* provisos of C2 hold of the index and the template in each direction)
RoundTripCoveredBy(back, e) ==
    /\ CoveredPath(e[2], output_type) /\ CoveredPath(e[1], input_type)
    /\ \E j \in DOMAIN back : back[j] = <<e[2], e[1]>>
    /\ UnrelatedTrimmed(mappings)
    /\ UnrelatedTrimmed(back)
RoundTripCovered(e) == RoundTripCoveredBy(BackIndex, e)

NumberValue(v) == [t |-> "num", n |-> v.n, s |-> <<>>, kids |-> {}]

\* the value at e's input path after the round trip
RoundTripOf(e) == Deep(heap, get_value_from_path(heap, back_data, e[1]), MaxDepth)

\* C9 (as claimed): after A -> B -> A every number or text at a path mapped
\* in both directions equals the original value.
C9_RoundTripIsOriginal ==
    pc = "back" =>
        \A i \in DOMAIN mappings :
            RoundTripCovered(mappings[i]) /\ ReadBy(mappings[i]).t \in {"num", "str"}
                => RoundTripOf(mappings[i]) = Deep(InputAtCall.h, ReadBy(mappings[i]), 0)

\* what a text x at input path e[1] comes back as
TextAfterRoundTrip(e, x) ==
    IF input_type \in BattMoIds THEN WrittenForText(e[1], x)
    ELSE IF input_type = "cidemod" /\ output_type \in BattMoIds THEN WrittenForText(e[2], x)
    ELSE TextValue(x)

\* C9 (amended): after A -> B -> A, at a path mapped in both directions and
\* written by both conversions, a number equals the original and a text is
\* the original with whole-word x_s and c_e rewritten to x (the original
\* itself when it has neither name in it); the text comes back as the
\* expression of a Function-Value where the last conversion to a BattMo
\* format met it as text at a path with a function field.
C9_RoundTripIsNormalized ==
    pc = "back" =>
        \A i \in DOMAIN mappings :
            RoundTripCovered(mappings[i]) =>
                /\ ReadBy(mappings[i]).t = "num"
                     => RoundTripOf(mappings[i]) = NumberValue(ReadBy(mappings[i]))
                /\ ReadBy(mappings[i]).t = "str"
                     => RoundTripOf(mappings[i])
                          = TextAfterRoundTrip(mappings[i],
                                               replace_variables(ReadBy(mappings[i]).s))
                /\ ReadBy(mappings[i]).t = "str" /\ NoVariableName(ReadBy(mappings[i]).s)
                     => RoundTripOf(mappings[i])
                          = TextAfterRoundTrip(mappings[i], ReadBy(mappings[i]).s)

\* a BPX formula c_e+x came back as x+x, and a number 1 as 1
C9_Witness ==
    /\ pc = "back" /\ input_type = "bpx"
    /\ \E i \in DOMAIN mappings :
          /\ RoundTripCovered(mappings[i])
          /\ ReadBy(mappings[i]) = PyStr(<<"c","_","e","+","x">>)
          /\ RoundTripOf(mappings[i]) = TextValue(<<"x","+","x">>)

\* ---- C10: the normalization applied twice
\* C10: normalizing a normalized text changes nothing.
C10_NormalizationIdempotent ==
    Len(texts) = 3 => texts[3] = texts[2]

\* a text that the first normalization changed was normalized twice
C10_Witness ==
    Len(texts) = 3 /\ texts[2] # texts[1]

\* ---- C11: the BPX header
\* the fixed block: version 0.1, the fixed title, the description naming the
\* input source, the model DFN
FixedHeader ==
    [t |-> "dict", n |-> 0, s |-> <<>>,
     kids |-> { <<StrKey(<<"B","P","X">>), [t |-> "float", n |-> 1, s |-> <<>>, kids |-> {}]>>,
                <<StrKey(<<"T","i","t","l","e">>), TextValue(sTitleText)>>,
                <<StrKey(<<"D","e","s","c","r","i","p","t","i","o","n">>),
                  TextValue(sDescPrefix \o InputUrl \o sDescSuffix)>>,
                <<StrKey(<<"M","o","d","e","l">>), TextValue(<<"D","F","N">>)>> }]

\* the member of document doc (heap h) under the top-level key name
TopLevel(h, doc, name) == Deep(h, get_value_from_path(h, doc, <<StrKey(name)>>), MaxDepth)
HasTopLevel(h, doc, name) == KeyIndex(h[doc.a], StrKey(name)) # 0

\* a BPX document: the fixed header, no Validation
HeaderInstalled(h, doc) ==
    /\ TopLevel(h, doc, <<"H","e","a","d","e","r">>) = FixedHeader
    /\ ~HasTopLevel(h, doc, <<"V","a","l","i","d","a","t","i","o","n">>)

\* the same conversion by a mapper built on the template as loaded, its
\* Validation still there
OnLoadedTemplate(t) ==
    map_parameters(t.h, t.v, mappings, InputAtCall.v, output_type, {})
DirectRun == OnLoadedTemplate(Load(InputAtCall.h, template_src))
DirectRunInstalled(r) == r.st = "ok" => HeaderInstalled(r.h, r.out)

NoEntryUnderHeader ==
    \A i \in DOMAIN mappings : Stripped(mappings[i][2][1]) # StrKey(sHeader)

\* C11: a document returned for output format bpx has exactly the fixed
\* Header, whatever the template held and the entries wrote under Header, and
\* no top-level Validation (also when the template still had one); for any
\* other output format the translator writes no Header: the Header is the
\* template's, or missing, unless an entry wrote under it.
C11_BpxHeaderInstalled ==
    /\ pc = "done" /\ output_type = "bpx"
           => HeaderInstalled(heap, output_data) /\ DirectRunInstalled(DirectRun)
    /\ pc = "done" /\ output_type # "bpx" /\ NoEntryUnderHeader
           => TopLevel(heap, output_data, sHeader)
                = TopLevel(TemplateAtCall.h, TemplateAtCall.v, sHeader)

\* a BPX conversion on a template with a Header and a Validation, with an
\* entry that wrote a title under Header
C11_Witness ==
    /\ pc = "done" /\ output_type = "bpx"
    /\ \E i \in DOMAIN mappings :
          /\ mappings[i][2] = <<StrKey(sHeader), StrKey(sTitle)>>
          /\ ReadBy(mappings[i]).t = "str"
    /\ HasTopLevel(TemplateAtCall.h, TemplateAtCall.v, sHeader)
    /\ \E i \in DOMAIN template_src.kids : template_src.kids[i][1] = StrKey(sValidation)

\* ---- C12: the value part of a property node
\* the document value a property node was made from
NodeSource(node) ==
    _get_value_from_path(heap, input_data,
                         FirstPath(graph, node.subject, key_map(input_type)))

\* a text that reads as a number: digits, possibly between blanks
LooksNumeric(v) == v.t = "str" /\ DigitRun(Strip(v.s))

\* the value part is the numerical one, of type Real, carrying the number n
NumericalPartOf(p, n) ==
    p.part = "hasNumericalPart" /\ p.type = "Real" /\ p.num = n

\* the value part is the string one, of type String, carrying the text x
StringPartOf(p, x) ==
    p.part = "hasStringPart" /\ p.type = "String" /\ p.text = x

NamesFunction(v) ==
    v.t = "dict" /\ KeyIndex(heap[v.a], StrKey(<<"f","u","n","c","t","i","o","n","n","a","m","e">>)) # 0

ValuePartAsClaimed(v, p) ==
    CASE v.t \in {"num", "float"} -> NumericalPartOf(p, v.n)
      [] LooksNumeric(v) -> \E n \in 0..9 : IntToText(n) = Strip(v.s) /\ NumericalPartOf(p, n)
      [] v.t = "str" /\ ~LooksNumeric(v) -> StringPartOf(p, v.s)
      [] v.t = "bool" -> StringPartOf(p, IF v.n = 1 THEN <<"T","r","u","e">>
                                                     ELSE <<"F","a","l","s","e">>)
      [] NamesFunction(v) ->
             StringPartOf(p, get_value_from_path(heap, v, <<StrKey(sFunctionname)>>).s)
      [] OTHER -> StringPartOf(p, PyRepr(heap, v, MaxDepth))

\* C12: every property node of the exported document carries one value part:
\* the numerical one (type Real, the number) when the value is a number that
\* is no boolean or a text that reads as a number, the string one (type
\* String, the text) for every other value, a mapping with a functionname key
\* giving that function's name.
C12_ValuePartByKind ==
    pc = "exported" =>
        \A i \in DOMAIN jsonld : ValuePartAsClaimed(NodeSource(jsonld[i]), jsonld[i].value)

\* an exported document with a node made from a text that reads as a number
\* and a node made from a text that does not
C12_Witness ==
    /\ pc = "exported"
    /\ \E i, j \in DOMAIN jsonld :
          /\ LooksNumeric(NodeSource(jsonld[i]))
          /\ jsonld[i].value.part = "hasNumericalPart"
          /\ NodeSource(jsonld[j]).t = "str" /\ ~LooksNumeric(NodeSource(jsonld[j]))
          /\ jsonld[j].value.part = "hasStringPart"

\* ---- C13: one property node per subject with a value
JAbsent == [t |-> "absent", n |-> 0, s |-> <<>>, kids |-> <<>>]

\* the position a path component has in a sequence of len members, 0 when
\* it has none
SequencePosition(k, len) ==
    IF k.t = "int" THEN (IF 0 <= k.n /\ k.n < len THEN k.n + 1 ELSE 0)
    ELSE IF DigitRun(Strip(k.s)) /\ IntOf(k.s) < len THEN IntOf(k.s) + 1
    ELSE 0

RECURSIVE ValueAt(_, _)
\* the member of the JSON document doc at path keys: keys of mappings, with
\* the blanks around a text component trimmed, and positions of sequences
ValueAt(doc, keys) ==
    IF keys = <<>> THEN doc
    ELSE IF doc.t = "dict"
    THEN LET k == IF Head(keys).t = "str" THEN StrKey(Strip(Head(keys).s)) ELSE Head(keys)
         IN  IF \E i \in DOMAIN doc.kids : doc.kids[i][1] = k
             THEN ValueAt(doc.kids[CHOOSE i \in DOMAIN doc.kids : doc.kids[i][1] = k][2],
                          Tail(keys))
             ELSE JAbsent
    ELSE IF doc.t = "list" /\ SequencePosition(Head(keys), Len(doc.kids)) # 0
    THEN ValueAt(doc.kids[SequencePosition(Head(keys), Len(doc.kids))][2], Tail(keys))
    ELSE JAbsent

\* the subjects carrying the annotation of the input format
AnnotatedSubjects ==
    {graph[i].s : i \in {j \in DOMAIN graph : graph[j].p = key_map(input_type)}}

\* the path the subject declares for the input format
DeclaredPath(subject) ==
    TupleOf(parse_key(graph[CHOOSE i \in DOMAIN graph :
                                graph[i].s = subject /\ graph[i].p = key_map(input_type)].o))

\* the declared path of the subject leads to a value of the input document
HasPresentValue(subject) ==
    /\ DeclaredPath(subject) # <<>>
    /\ ValueAt(input_src, DeclaredPath(subject)).t \notin {"absent", "none"}

NodesOf(subject) == {i \in DOMAIN jsonld : jsonld[i].subject = subject}

\* C13: the exported document has exactly one property node for every
\* subject that carries the annotation of the input format and whose declared
\* path leads to a value of the input document, none for a subject whose
\* path is not in the document, and so as many nodes as there are annotated
\* subjects with a value.
C13_OneNodePerPresentValue ==
    pc = "exported" =>
        /\ \A subject \in AnnotatedSubjects :
               Cardinality(NodesOf(subject)) = IF HasPresentValue(subject) THEN 1 ELSE 0
        /\ Len(jsonld) = Cardinality({subject \in AnnotatedSubjects : HasPresentValue(subject)})

\* an export where one annotated subject has a value, and a node, and another
\* has a path that is not in the document
C13_Witness ==
    /\ pc = "exported"
    /\ \E a, b \in AnnotatedSubjects :
          /\ HasPresentValue(a) /\ NodesOf(a) # {}
          /\ ValueAt(input_src, DeclaredPath(b)) = JAbsent

\* ---- C14: the measurement unit of a property node
\* the unit the graph declares for the subject under predicate pred, <<>>
\* when it declares none
DeclaredUnit(subject, pred) ==
    IF \E i \in DOMAIN graph : graph[i].s = subject /\ graph[i].p = pred
    THEN graph[CHOOSE i \in DOMAIN graph : graph[i].s = subject /\ graph[i].p = pred].o[1].s
    ELSE <<>>

\* the unit of the subject by the precedence hasMeasurementUnit, hasUnit, unit
UnitByPrecedence(subject) ==
    IF DeclaredUnit(subject, "hasMeasurementUnit") # <<>>
    THEN DeclaredUnit(subject, "hasMeasurementUnit")
    ELSE IF DeclaredUnit(subject, "hasUnit") # <<>>
    THEN DeclaredUnit(subject, "hasUnit")
    ELSE DeclaredUnit(subject, "unit")

\* C14 (as claimed): the property node of a subject for which the graph
\* declares a unit under hasMeasurementUnit, hasUnit or unit carries that
\* unit, the predicate being taken in this precedence whatever the order in
\* which the graph yields its predicates.
C14_UnitByPrecedence ==
    pc = "exported" =>
        \A i \in DOMAIN jsonld : jsonld[i].unit = UnitByPrecedence(jsonld[i].subject)

\* ---- C15: the missing-value audit
RECURSIVE LeafPaths(_, _)
\* the paths of the leaves of a JSON document: the members that are neither
\* a mapping nor a sequence
LeafPaths(doc, prefix) ==
    IF doc.t \notin {"dict", "list"} THEN {prefix}
    ELSE UNION {LeafPaths(doc.kids[i][2], Append(prefix, doc.kids[i][1])) : i \in DOMAIN doc.kids}

\* C15 (as claimed): the sets mapped and missing of the audit are disjoint
\* and their union is the set of leaf paths of the input document, so that
\* every leaf path is in exactly one of them.
C15_AuditPartitionsLeaves ==
    pc = "exported" =>
        /\ audit.mapped_paths \cap audit.missing = {}
        /\ audit.mapped_paths \cup audit.missing = LeafPaths(input_src, <<>>)

\* ---- C16: the index for every pair of formats
\* the subjects of the graph
SubjectsOf(g) == {g[i].s : i \in DOMAIN g}

\* the path the subject declares under predicate pred, <<>> when it declares
\* none
PathUnder(subject, pred) ==
    IF \E i \in DOMAIN graph : graph[i].s = subject /\ graph[i].p = pred
    THEN TupleOf(parse_key(graph[CHOOSE i \in DOMAIN graph :
                                     graph[i].s = subject /\ graph[i].p = pred].o))
    ELSE <<>>

\* C16 (as claimed): whatever the two supported format identifiers, the same
\* one twice and the two BattMo ones included, the index has an entry keyed
\* by the input path of every subject that declares a non-empty path for the
\* input format and a non-empty path for the output format.
C16_EntryForEverySubject ==
    pc = "mapped" =>
        \A subject \in SubjectsOf(graph) :
            PathUnder(subject, key_map(input_type)) # <<>>
              /\ PathUnder(subject, key_map(output_type)) # <<>>
            => \E i \in DOMAIN mappings :
                   mappings[i][1] = PathUnder(subject, key_map(input_type))

\* ---- C17: a write that cannot be done
\* C17 (as claimed): map_parameters never raises because of a destination
\* path that does not fit what the working copy holds: the write of that
\* entry is dropped and the call returns a document.
C17_NoWriteRaises ==
    /\ pc # "raised"
    /\ pc = "done" => output_data.t = "dict"

\* ---- C18: annotations that are no path literal
\* the path the subject declares under predicate pred when the annotation is
\* a sequence literal, <<>> when it is anything else or missing
SequenceUnder(subject, pred) ==
    IF \E i \in DOMAIN graph :
           graph[i].s = subject /\ graph[i].p = pred /\ parse_key(graph[i].o).t = "seq"
    THEN parse_key(graph[CHOOSE i \in DOMAIN graph :
                             graph[i].s = subject /\ graph[i].p = pred].o).elems
    ELSE <<>>

\* the entries of the subjects that declare a path for both formats
EntriesOfSequences ==
    { <<SequenceUnder(subject, key_map(input_type)),
        SequenceUnder(subject, key_map(output_type))>> :
        subject \in {x \in SubjectsOf(graph) :
                        /\ SequenceUnder(x, key_map(input_type)) # <<>>
                        /\ SequenceUnder(x, key_map(output_type)) # <<>>} }

\* C18 (as claimed): whatever text an annotation holds (a syntax error, a
\* name that is no literal, a number or a text that is no sequence),
\* get_mappings does not raise, takes the path as empty and leaves out only
\* the subject of that annotation: for two formats with different predicates
\* the index holds exactly the entries of the other subjects.
C18_MalformedPathIsEmpty ==
    /\ pc # "index_raised"
    /\ pc = "mapped" /\ key_map(input_type) # key_map(output_type)
           => {mappings[i] : i \in DOMAIN mappings} = EntriesOfSequences

\* ---- C19: a value written at a path and read back
\* C19 (as claimed): after set_value_from_path has written value at a
\* non-empty path of a document, get_value_from_path at the same path returns
\* that value, whether the components are names, integers or strings of
\* digits, in the middle of the path or at its end.
C19_GetReturnsWritten ==
    pc = "got" => path_got = path_value

\* ---- C20: two calls of one mapper
RECURSIVE Reach(_, _, _)
\* the mappings and sequences (addresses) value v is made of
Reach(h, v, fuel) ==
    IF ~IsRef(v) \/ fuel = 0 THEN {}
    ELSE {v.a} \cup UNION {Reach(h, h[v.a].vals[i], fuel - 1) : i \in DOMAIN h[v.a].vals}

\* what a new mapper, built on the template as loaded, returns for the
\* second document
FreshOn(d) ==
    ConvertOn([m |-> mappings, st |-> "ok"], Load(d.h, template_src), d.v, output_type)
FreshSecond == FreshOn(Load(<<>>, second_src))

EqualsFresh(r) ==
    r.st = "ok" /\ Deep(heap, second_data, MaxDepth) = Deep(r.h, r.out, MaxDepth)

\* C20 (as claimed): the document a second map_parameters call of the same
\* mapper returns for another input equals what a new mapper built on the
\* original template returns for that input, and it has no mapping or
\* sequence in common with the document the first call returned.
C20_SecondCallIsPrivate ==
    pc = "done_again" =>
        /\ EqualsFresh(FreshSecond)
        /\ Reach(heap, output_data, MaxDepth) \cap Reach(heap, second_data, MaxDepth) = {}

\* ---- C21: the defaults still in effect
RECURSIVE DottedFrom(_, _)
\* the dotted / bracketed text of a path, as the template paths are written
DottedFrom(text, keys) ==
    IF keys = <<>> THEN text
    ELSE DottedFrom(IF Head(keys).t = "int"
                    THEN text \o <<"[">> \o IntToText(Head(keys).n) \o <<"]">>
                    ELSE IF text = <<>> THEN Strip(Head(keys).s)
                    ELSE text \o <<".">> \o Strip(Head(keys).s),
                    Tail(keys))
Dotted(keys) == DottedFrom(<<>>, keys)

\* the path text starts at the top-level key name
StartsAtKey(path, name) ==
    /\ IsPrefix(name, path)
    /\ (Len(path) = Len(name) \/ path[Len(name) + 1] \in {".", "["})

HighLevel(path) ==
    \/ StartsAtKey(path, <<"P","a","r","a","m","e","t","e","r","i","s","a","t","i","o","n">>)
    \/ StartsAtKey(path, <<"H","e","a","d","e","r">>)

\* the paths of the template the mapper was built on
TemplatePaths == get_all_paths(TemplateAtCall.h, TemplateAtCall.v, <<>>, MaxDepth)

\* the output paths of the entries that had a value to write
TargetedPaths == {Dotted(mappings[i][2]) : i \in {j \in DOMAIN mappings : ReadBy(mappings[j]).t # "none"}}

\* the output paths that were written: those of the entries C2 covers
WrittenPaths ==
    {Dotted(mappings[i][2]) :
        i \in {j \in DOMAIN mappings :
                  ReadBy(mappings[j]).t # "none" /\ C2_Covered(mappings, j, output_type)}}

\* C21 (as claimed): after map_parameters defaults_used holds template paths
\* only, none that starts at a top-level Parameterisation or Header, none that
\* a write was done at, whatever the output format, and every other template
\* path that no entry targeted.
C21_DefaultsNotOverwritten ==
    pc = "done" =>
        /\ defaults_used \subseteq {path \in TemplatePaths : ~HighLevel(path)}
        /\ defaults_used \cap WrittenPaths = {}
        /\ {path \in TemplatePaths : ~HighLevel(path)} \ TargetedPaths \subseteq defaults_used

\* ---- C22: values that are no text
\* the member of the mapping value d under the key name
HasMember(d, name) == \E kv \in d.kids : kv[1] = StrKey(name)
MemberOf(d, name) == (CHOOSE kv \in d.kids : kv[1] = StrKey(name))[2]

\* the name of the function a mapping names
NamedIn(d) ==
    IF HasMember(d, <<"f","u","n","c","t","i","o","n","N","a","m","e">>)
    THEN MemberOf(d, <<"f","u","n","c","t","i","o","n","N","a","m","e">>)
    ELSE MemberOf(d, <<"f","u","n","c","t","i","o","n","n","a","m","e">>)
NamesAFunction(d) ==
    \/ HasMember(d, <<"f","u","n","c","t","i","o","n","N","a","m","e">>)
    \/ HasMember(d, <<"f","u","n","c","t","i","o","n","n","a","m","e">>)

\* the text written for a function that has a name only
Placeholder(name) ==
    TextValue(<<"#"," ","N","a","m","e","d"," ","f","u","n","c","t","i","o","n",":"," ">>
              \o name
              \o <<" ","(","r","e","q","u","i","r","e","s"," ","m","a","n","u","a","l"," ",
                   "c","o","n","v","e","r","s","i","o","n",")">>)

\* the value entry e read and the value at its output path in the result
ValueRead(e) == Deep(InputAtCall.h, ReadBy(e), MaxDepth)
ValueWritten(e) == Deep(heap, get_value_from_path(heap, output_data, e[2]), MaxDepth)

\* what is written for value d (any value but a text) read by entry e
WrittenAsClaimed(e, d) ==
    IF d.t = "dict" /\ output_type = "bpx"
    THEN IF HasMember(d, <<"e","x","p","r","e","s","s","i","o","n">>)
         THEN ValueWritten(e) = MemberOf(d, <<"e","x","p","r","e","s","s","i","o","n">>)
         ELSE IF NamesAFunction(d)
         THEN ValueWritten(e) = Placeholder(NamedIn(d).s)
         ELSE ValueWritten(e) = TextValue(PyRepr(InputAtCall.h, ReadBy(e), MaxDepth))
    ELSE ValueWritten(e) = d

\* C22: a mapping written for BPX is the value of its expression key when it
\* has one, else a placeholder text naming the function when it has
\* functionName or functionname, else its text rendering; numbers and
\* sequences are written unchanged for every format, and mappings for every
\* format but BPX (for the entries whose value is written, as in C2).
C22_MappingForBpxByPrecedence ==
    pc = "done" /\ UnrelatedTrimmed(mappings) =>
        \A i \in DOMAIN mappings :
            /\ ReadBy(mappings[i]).t \notin {"none", "str"}
            /\ C2_Covered(mappings, i, output_type)
            => WrittenAsClaimed(mappings[i], ValueRead(mappings[i]))

\* a conversion to BPX that wrote the placeholder for a function given by
\* name
C22_Witness ==
    /\ pc = "done" /\ output_type = "bpx" /\ UnrelatedTrimmed(mappings)
    /\ \E i \in DOMAIN mappings :
          /\ C2_Covered(mappings, i, output_type)
          /\ ReadBy(mappings[i]).t = "dict"
          /\ NamesAFunction(ValueRead(mappings[i]))
          /\ ValueWritten(mappings[i]) = Placeholder(<<"f">>)

\* ---- C23: one output path per input path, the last one scanned
\* the value of the last triple of the subject with predicate pred, an empty
\* sequence when it has none
LastValue(subject, pred) ==
    IF \E i \in DOMAIN graph : graph[i].s = subject /\ graph[i].p = pred
    THEN parse_key(graph[CHOOSE i \in DOMAIN graph :
                             /\ graph[i].s = subject /\ graph[i].p = pred
                             /\ \A j \in DOMAIN graph :
                                    graph[j].s = subject /\ graph[j].p = pred => j <= i].o)
    ELSE LitSeq(<<>>)

\* the subjects that give an entry: the values scanned last are both there
Contributing ==
    {subject \in SubjectsOf(graph) :
        /\ Truthy(LastValue(subject, key_map(input_type)))
        /\ Truthy(LastValue(subject, key_map(output_type)))}

InputPathOf(subject) == TupleOf(LastValue(subject, key_map(input_type)))
OutputPathOf(subject) == TupleOf(LastValue(subject, key_map(output_type)))

\* the subject scanned last among those that declare input path k
LastDeclaring(k) ==
    CHOOSE subject \in Contributing :
        /\ InputPathOf(subject) = k
        /\ \A other \in Contributing : InputPathOf(other) = k => other <= subject

\* C23: the index has one entry per input path; its output path is the one of
\* the subject scanned last among those that declare the input path, and for
\* a subject with several values for a predicate the value scanned last counts.
C23_LastScannedWins ==
    pc = "mapped" /\ key_map(input_type) # key_map(output_type) =>
        /\ \A i, j \in DOMAIN mappings : mappings[i][1] = mappings[j][1] => i = j
        /\ {mappings[i][1] : i \in DOMAIN mappings} = {InputPathOf(subject) : subject \in Contributing}
        /\ \A i \in DOMAIN mappings :
               mappings[i][2] = OutputPathOf(LastDeclaring(mappings[i][1]))

\* two subjects declare the same input path with different output paths, the
\* first of them with two values for the output predicate; the index has the
\* output path of the second
C23_Witness ==
    /\ pc = "mapped" /\ Len(mappings) = 1
    /\ Cardinality(Contributing) = 2
    /\ \E a, b \in Contributing :
          /\ a < b /\ InputPathOf(a) = InputPathOf(b) /\ OutputPathOf(a) # OutputPathOf(b)
          /\ Cardinality({i \in DOMAIN graph :
                             graph[i].s = a /\ graph[i].p = key_map(output_type)}) = 2
          /\ mappings[1][2] = OutputPathOf(b)

\* ---- C24: an entry whose input path is absent
\* a path as the walks take it: names trimmed, strings of digits as integers
CanonicalPath(keys) ==
    [i \in DOMAIN keys |->
        IF IsIndexKey(Stripped(keys[i])) THEN IntKey(IndexOf(Stripped(keys[i])))
        ELSE Stripped(keys[i])]

\* one path is the other or lies above it
Related(p, q) ==
    \/ IsPrefix(CanonicalPath(p), CanonicalPath(q))
    \/ IsPrefix(CanonicalPath(q), CanonicalPath(p))

\* no entry but entry i has an output path at, above or below path p
NoOtherEntryNear(i, p) ==
    \A j \in DOMAIN mappings : j # i => ~Related(p, mappings[j][2])

ResultAt(p) == Deep(heap, get_value_from_path(heap, output_data, p), MaxDepth)
TemplateAt(p) ==
    Deep(TemplateAtCall.h, get_value_from_path(TemplateAtCall.h, TemplateAtCall.v, p), MaxDepth)

\* the result has at the output path of entry i, and at every path above it
\* that no other entry is near, what the template has there
LeftAsTemplate(i) ==
    \A n \in 1..Len(mappings[i][2]) :
        NoOtherEntryNear(i, SubSeq(mappings[i][2], 1, n))
            => ResultAt(SubSeq(mappings[i][2], 1, n)) = TemplateAt(SubSeq(mappings[i][2], 1, n))

\* C24 (as claimed): an entry whose input path is absent from the input
\* document writes and creates nothing: the result has the template's value
\* at its output path (or no value, as the template), provided no other
\* entry writes at, above or below that path.
C24_AbsentInputLeavesTemplate ==
    pc = "done" =>
        \A i \in DOMAIN mappings :
            ReadBy(mappings[i]).t = "none" /\ NoOtherEntryNear(i, mappings[i][2])
                => LeftAsTemplate(i)

\* C24 (amended): the same, unless the output format is BPX and the output
\* path starts at Header or Validation, which the header step replaces and
\* drops.
C24_AbsentInputLeavesTemplateOutsideHeader ==
    pc = "done" =>
        \A i \in DOMAIN mappings :
            /\ ReadBy(mappings[i]).t = "none" /\ NoOtherEntryNear(i, mappings[i][2])
            /\ OutsideHeader(output_type, mappings[i][2])
            => LeftAsTemplate(i)

\* an entry found no value in the input, and the template's default, which
\* is no null, is in the result
C24_Witness ==
    /\ pc = "done"
    /\ \E i \in DOMAIN mappings :
          /\ ReadBy(mappings[i]).t = "none" /\ NoOtherEntryNear(i, mappings[i][2])
          /\ OutsideHeader(output_type, mappings[i][2])
          /\ TemplateAt(mappings[i][2]).t \notin {"none"}
          /\ ResultAt(mappings[i][2]) = TemplateAt(mappings[i][2])

\* ---- C25: reading a path never raises
\* the position of the member a component selects in a sequence of len
\* members (a text is read as an integer, a negative integer counts from
\* the end), 0 when the component is no integer or selects no member
PositionIn(k, len) ==
    IF k.t = "str" /\ ~IntParses(k.s) THEN 0
    ELSE LET n == IF k.t = "int" THEN k.n ELSE IntOf(k.s)
         IN  IF 0 <= n /\ n < len THEN n + 1
             ELSE IF n < 0 /\ 0 - n <= len THEN len + n + 1
             ELSE 0

\* the component names a member of the node: a key of a mapping (a text
\* trimmed), a position of a sequence
NamesMember(node, k) ==
    \/ node.t = "dict" /\ \E i \in DOMAIN node.kids : node.kids[i][1] = Stripped(k)
    \/ node.t = "list" /\ PositionIn(Stripped(k), Len(node.kids)) # 0

MemberNamed(node, k) ==
    IF node.t = "dict"
    THEN node.kids[CHOOSE i \in DOMAIN node.kids : node.kids[i][1] = Stripped(k)][2]
    ELSE node.kids[PositionIn(Stripped(k), Len(node.kids))][2]

RECURSIVE StepFails(_, _)
\* some step of keys under node is out of range, meets a node that is no
\* mapping and no sequence, or names a missing key
StepFails(node, keys) ==
    /\ keys # <<>>
    /\ \/ ~NamesMember(node, Head(keys))
       \/ StepFails(MemberNamed(node, Head(keys)), Tail(keys))

RECURSIVE MemberAt(_, _)
\* the member keys lead to, no step failing
MemberAt(node, keys) ==
    IF keys = <<>> THEN node ELSE MemberAt(MemberNamed(node, Head(keys)), Tail(keys))

\* C25: get_value_from_path never raises on a path of strings and integers;
\* it returns None when a step is out of range, meets a node of the wrong
\* type or names a missing key, and otherwise the member found by using
\* each component as a key on a mapping and as an integer on a sequence;
\* the exporter's reader returns the same.
C25_GetNeverRaises ==
    /\ pc # "read_raised"
    /\ pc = "read" =>
          /\ StepFails(template_src, path_keys) => path_got = PyNone
          /\ ~StepFails(template_src, path_keys) =>
                Deep(heap, path_got, MaxDepth) = DeepOf(Load(<<>>, MemberAt(template_src, path_keys)))
          /\ _get_value_from_path(heap, output_data, LitSeq(path_keys)) = path_got

\* a read that met a position out of range of a sequence returned None
C25_Witness ==
    /\ pc = "read" /\ path_got = PyNone
    /\ GetRaised(heap, output_data, path_keys) = "IndexError"

\* ---- C26: the paths parse_key returns
\* a path component that is an integer or a text without blanks around it
TrimmedComponent(k) == k.t = "int" \/ (k.t = "str" /\ Strip(k.s) = k.s)

TrimmedComponents(keys) == \A i \in DOMAIN keys : TrimmedComponent(keys[i])

\* the annotations of the graph that declare a path of some format
PathAnnotations ==
    {i \in DOMAIN graph : \E type \in FormatIds : graph[i].p = key_map(type)}

\* C26 (as claimed): parse_key returns a sequence of integers and of texts
\* with the blanks around them trimmed, so every key and every value of the
\* mapping index consists of integers and trimmed texts only.
C26_ParsedPathsAreTrimmed ==
    pc = "mapped" =>
        /\ \A i \in PathAnnotations :
              /\ parse_key(graph[i].o).t = "seq"
              /\ TrimmedComponents(parse_key(graph[i].o).elems)
        /\ \A i \in DOMAIN mappings :
              TrimmedComponents(mappings[i][1]) /\ TrimmedComponents(mappings[i][2])

\* ---- C27: a dropped write
\* C27 (as claimed): a write that set_value_from_path drops leaves the
\* document as it was before the call: no mapping created, no sequence
\* extended.
C27_DroppedWriteChangesNothing ==
    pc = "set_dropped" => Deep(heap, output_data, MaxDepth) = DeepOf(Load(<<>>, template_src))

\* ---- C28: the audit against the nodes exported
\* the path whose value the node was made from, as the reader walks it
EmittedPath(node) ==
    CanonicalPath(TupleOf(FirstPath(graph, node.subject, key_map(input_type))))

\* C28 (as claimed): no leaf the audit reports as missing lies at or beneath
\* a path whose value was exported as a property node.
C28_MissingNeverExported ==
    pc = "exported" =>
        \A i \in DOMAIN jsonld : \A leaf \in audit.missing :
            ~IsPrefix(EmittedPath(jsonld[i]), leaf)

\* ---- C29: values that are present and falsy
\* 0, false, the empty text, the empty sequence, the empty mapping
Falsy(h, v) ==
    \/ v.t \in {"num", "bool"} /\ v.n = 0
    \/ v.t = "str" /\ v.s = <<>>
    \/ IsRef(v) /\ h[v.a].vals = <<>>

FalsyMember(j) ==
    \/ j.t \in {"num", "bool"} /\ j.n = 0
    \/ j.t = "str" /\ j.s = <<>>
    \/ j.t \in {"dict", "list"} /\ j.kids = <<>>

\* every subject whose declared path holds a falsy value has a property node
FalsyExported ==
    \A subject \in AnnotatedSubjects :
        DeclaredPath(subject) # <<>> /\ FalsyMember(ValueAt(input_src, DeclaredPath(subject)))
            => NodesOf(subject) # {}

\* C29 (as claimed): a mapped input path holding 0, false, an empty text, an
\* empty sequence or an empty mapping is written (converted) to the output
\* path by map_parameters, and gives a property node in export_jsonld.
C29_FalsyValueCopied ==
    /\ pc = "done" =>
          \A i \in DOMAIN mappings :
              Falsy(InputAtCall.h, ReadBy(mappings[i]))
              => HoldsConverted(output_data, mappings[i][2], ReadBy(mappings[i]), output_type)
    /\ pc = "exported" => FalsyExported

\* C29 (amended): the same, for map_parameters provided the output paths of
\* distinct entries, trimmed, are neither equal nor prefixes of one another,
\* every node of the template along the output path is a mapping, no
\* component of the output path is an integer or a string of digits, and
\* for BPX the output path starts neither at Header nor at Validation.
C29_FalsyValueCopiedWhereWritable ==
    /\ pc = "done" /\ UnrelatedTrimmed(mappings) =>
          \A i \in DOMAIN mappings :
              /\ Falsy(InputAtCall.h, ReadBy(mappings[i]))
              /\ C2_Covered(mappings, i, output_type)
              => HoldsConverted(output_data, mappings[i][2], ReadBy(mappings[i]), output_type)
    /\ pc = "exported" => FalsyExported

\* false or an empty text, sequence or mapping was read and is in the result
C29_Witness ==
    /\ pc = "done" /\ UnrelatedTrimmed(mappings)
    /\ \E i \in DOMAIN mappings :
          /\ Falsy(InputAtCall.h, ReadBy(mappings[i]))
          /\ ReadBy(mappings[i]).t # "num"
          /\ C2_Covered(mappings, i, output_type)
          /\ ValueWritten(mappings[i]) # TemplateAt(mappings[i][2])

\* ---- C30: the index of the opposite direction
\* the paths the triples of predicate pred declare, by triple
PathDeclared(i) == TupleOf(parse_key(graph[i].o))

\* every subject carries at most one path for the predicate
OnePathEach(pred) ==
    \A i, j \in DOMAIN graph :
        graph[i].p = pred /\ graph[j].p = pred /\ graph[i].s = graph[j].s => i = j

\* no two subjects share a path for the predicate
NoPathShared(pred) ==
    \A i, j \in DOMAIN graph :
        /\ graph[i].p = pred /\ graph[j].p = pred /\ graph[i].s # graph[j].s
        /\ PathDeclared(i) # <<>>
        => PathDeclared(i) # PathDeclared(j)

InverseCovered ==
    /\ key_map(input_type) # key_map(output_type)
    /\ OnePathEach(key_map(input_type)) /\ OnePathEach(key_map(output_type))
    /\ NoPathShared(key_map(input_type)) /\ NoPathShared(key_map(output_type))

\* the graph iterated the other way round
Reversed(g) == [i \in DOMAIN g |-> g[Len(g) + 1 - i]]

\* the entries of an index, and those of its inverse
EntriesOf(m) == {<<m[i][1], m[i][2]>> : i \in DOMAIN m}
InverseOf(m) == {<<m[i][2], m[i][1]>> : i \in DOMAIN m}

\* index r, built for the opposite direction, is the inverse of the index
\* of the state
IsInverse(r) ==
    /\ r.st = "ok"
    /\ EntriesOf(r.m) = InverseOf(mappings)
    /\ \A i, j \in DOMAIN r.m : r.m[i][1] = r.m[j][1] => i = j

\* C30: with at most one path per subject and format predicate, no path
\* shared by two subjects and two different predicates, the index for (B,A)
\* is the inverse of the index for (A,B), in whatever order the graph is
\* iterated.
C30_OppositeIndexIsInverse ==
    pc = "mapped" /\ InverseCovered =>
        /\ IsInverse(get_mappings(graph, output_type, input_type))
        /\ IsInverse(get_mappings(Reversed(graph), output_type, input_type))

\* an index of two entries, of two subjects
C30_Witness ==
    /\ pc = "mapped" /\ InverseCovered
    /\ Len(mappings) = 2
    /\ EntriesOf(get_mappings(graph, output_type, input_type).m) = InverseOf(mappings)

====
